---- MODULE Spec2Model ----
(***************************************************************************)
(* Fact Resolution Engine of factbuilder: context canonicalisation and     *)
(* hashing (facts/context.py), the dependency graph (facts/graph.py), the  *)
(* registry build and the recursive resolver with its persistent cache     *)
(* (facts/taxonomy.py, facts/models.py) and the question entry point       *)
(* (facts/engine.py).                                                      *)
(***************************************************************************)
EXTENDS Integers, Sequences, FiniteSets, Bags, TLC

VARIABLES
    ctxPair,    \* the two contexts handed to hash_context
    ctxOut,     \* what normalize_context and hash_context gave for each
    fdefs,      \* the FactDefinition rows, each with its FactDefinitionVersion rows
    reg,        \* the FactRegistry of the latest build: fact id -> FactSpec
    engine,     \* per request, the FactRegistry its resolve_fact calls are given
    build,      \* how the last build_taxonomy call ended, and the cycles it found
    db,         \* the FactInstance table: the rows in insertion order, id = position
    fid,        \* the FactInstanceDependency table: a set of rows, id = order of insertion
    store,      \* per request, its FactStore: store key -> FactInstance
    stack,      \* per request, the resolve_fact calls in progress, innermost last
    calls,      \* per request, the top-level resolve_fact calls made with its store
    asker,      \* per request, the user whose question answer_question resolves (0: none)
    result,     \* per request, how its last top-level call ended
    log,        \* per request, what its current top-level call has done so far
    tally,      \* per request, how many times each event has happened with its store
    recognizers, \* IntentRouter.recognizers, in the order they were loaded
    question,   \* the text handed to IntentRouter.route
    routed      \* what route returned

routeVars == <<recognizers, question, routed>>
pureVars == <<ctxPair, ctxOut, routeVars>>
regVars == <<fdefs, reg, engine, build>>
resVars == <<db, fid, store, stack, calls, asker, result, log, tally>>
vars == <<ctxPair, ctxOut, fdefs, reg, engine, build, db, fid, store, stack, calls, asker, result, log, tally,
         recognizers, question, routed>>

(***************************************************************************)
(* Bounds of the model.                                                    *)
(***************************************************************************)
MaxInt == 1
MaxFloat == 1
MaxDec == 2
MaxDay == 1
MaxKeys == 2
NumRequests == 2
MaxCalls == 2
MaxVersions == 2
\* Resolution of the two numeric representations: a float is m/FloatDen, a
\* Decimal is k/DecDen.  Decimal is the finer one, as an arbitrary-precision
\* decimal is finer than a binary64.
FloatDen == 2
DecDen == 4

(***************************************************************************)
(* Python values.  Every value is a record of one shape so that any two    *)
(* values can be compared: t is the Python type, n the number (ints, and   *)
(* the numerator of floats and Decimals, the ordinal of dates), s the text *)
(* of a str, kids the entries of a dict (in insertion order, as Python     *)
(* keeps them) or the elements of a list (k = "").                         *)
(***************************************************************************)
MkInt(i) == [t |-> "int", n |-> i, s |-> "", kids |-> <<>>]
MkFloat(m) == [t |-> "float", n |-> m, s |-> "", kids |-> <<>>]
MkDec(k) == [t |-> "Decimal", n |-> k, s |-> "", kids |-> <<>>]
MkDate(d) == [t |-> "date", n |-> d, s |-> "", kids |-> <<>>]
MkStr(x) == [t |-> "str", n |-> 0, s |-> x, kids |-> <<>>]
MkMap(es) == [t |-> "dict", n |-> 0, s |-> "", kids |-> es]
MkList(xs) == [t |-> "list", n |-> 0, s |-> "",
               kids |-> [i \in 1..Len(xs) |-> [k |-> "", v |-> xs[i]]]]
Entry(key, val) == [k |-> key, v |-> val]

\* date.isoformat(): the text "2023-01-DD" of the day with ordinal d.
isoformat(d) == "2023-01-0" \o ToString(d)

\* float(Decimal): the nearest float, ties to the even numerator.
RoundHalfEven(num, den) ==
    LET q == num \div den
        r == num % den
    IN  IF 2 * r < den THEN q
        ELSE IF 2 * r > den THEN q + 1
        ELSE IF q % 2 = 0 THEN q ELSE q + 1

DecimalToFloat(k) == RoundHalfEven(k * FloatDen, DecDen)

\* The keys normalize_context drops.
TransientKeys == {"user", "request", "session_id"}

\* No key taken as transient.
IsTransientNever(key) == FALSE

\* context.py 30: the key is one of the three the dict branch skips.
IsTransient(key) == key \in TransientKeys

(***************************************************************************)
(* normalize_context, context.py lines 18-43.                              *)
(***************************************************************************)
RECURSIVE normalize_context(_)
\* normalize_context with the list branch returning the list as it is.
normalize_context_lists_as_is(c) ==
    IF c.t = "dict" THEN
        LET kept == SelectSeq(c.kids, LAMBDA e : ~IsTransient(e.k))
        IN  MkMap([i \in 1..Len(kept) |->
                      Entry(kept[i].k, normalize_context(kept[i].v))])
    ELSE IF c.t = "list" THEN c
    ELSE IF c.t = "date" THEN MkStr(isoformat(c.n))
    ELSE IF c.t = "Decimal" THEN MkFloat(DecimalToFloat(c.n))
    ELSE IF c.t = "float" THEN MkFloat(c.n)
    ELSE c

normalize_context(c) ==
    IF c.t = "dict" THEN
        LET kept == SelectSeq(c.kids, LAMBDA e : ~IsTransient(e.k))
        IN  MkMap([i \in 1..Len(kept) |->
                      Entry(kept[i].k, normalize_context(kept[i].v))])
    ELSE IF c.t = "list" THEN
        MkList([i \in 1..Len(c.kids) |-> normalize_context(c.kids[i].v)])
    ELSE IF c.t = "date" THEN MkStr(isoformat(c.n))
    ELSE IF c.t = "Decimal" THEN MkFloat(DecimalToFloat(c.n))
    ELSE IF c.t = "float" THEN MkFloat(c.n)
    ELSE c

(***************************************************************************)
(* json.dumps(norm, sort_keys=True, separators=(',', ':')), as the         *)
(* sequence of the tokens of the text.                                     *)
(***************************************************************************)
\* The keys of the model in code-point order, which is how sort_keys sorts.
KeyOrder == <<"a", "b", "d", "request", "session_id", "user", "val", "x">>

KeyRank(key) == CHOOSE i \in 1..Len(KeyOrder) : KeyOrder[i] = key

RECURSIVE SortByKey(_)
SortByKey(es) ==
    IF Len(es) <= 1 THEN es
    ELSE LET m == CHOOSE i \in 1..Len(es) :
                      \A j \in 1..Len(es) : KeyRank(es[i].k) <= KeyRank(es[j].k)
             rest == [i \in 1..(Len(es) - 1) |-> IF i < m THEN es[i] ELSE es[i + 1]]
         IN  <<es[m]>> \o SortByKey(rest)

RECURSIVE json_dumps(_)
RECURSIVE json_items(_, _)
json_items(es, withKeys) ==
    IF Len(es) = 0 THEN <<>>
    ELSE (IF withKeys THEN <<"\"" \o es[1].k \o "\"", ":">> ELSE <<>>)
         \o json_dumps(es[1].v)
         \o (IF Len(es) > 1 THEN <<",">> ELSE <<>>)
         \o json_items(Tail(es), withKeys)

json_dumps(v) ==
    IF v.t = "dict" THEN <<"{">> \o json_items(SortByKey(v.kids), TRUE) \o <<"}">>
    ELSE IF v.t = "list" THEN <<"[">> \o json_items(v.kids, FALSE) \o <<"]">>
    ELSE IF v.t = "str" THEN <<"\"" \o v.s \o "\"">>
    ELSE IF v.t = "int" THEN <<ToString(v.n)>>
    ELSE \* a float: repr always carries a fraction part, "1.0", "0.5"
         <<ToString(v.n \div FloatDen) \o "." \o ToString(v.n % FloatDen)
           \o "/" \o ToString(FloatDen)>>

\* hashlib.sha256(...).hexdigest(): taken as injective on the text hashed.
sha256_hexdigest(text) == <<"sha256">> \o text

\* hash_context, context.py lines 45-50.
hash_context(c) == sha256_hexdigest(json_dumps(normalize_context(c)))

(***************************************************************************)
(* The persisted definitions and the registry built from them.             *)
(***************************************************************************)
FactIds == {"A", "B", "C"}

\* The ids in order; D is registered in the diamond only.
FactOrder == <<"A", "B", "C", "D">>

\* A list of fact ids, in the order of FactOrder.
ListOf(S) == SelectSeq(FactOrder, LAMBDA f : f \in S)

\* parameters_schema: the keys it requires and the keys it types as strings;
\* the empty schema is Python's {}.
NoSchema == [required |-> {}, strings |-> {}]

\* A FactDefinitionVersion row.
Version(num, st, req, schema, src) ==
    [version |-> num, status |-> st, requires |-> req, dependencies |-> <<>>,
     parameters_schema |-> schema, code |-> src]

\* A FactDefinition row with its versions.
Definition(active, vs) == [is_active |-> active, versions |-> vs]

NoDefinitions == [f \in {} |-> Definition(FALSE, <<>>)]

NoRegistry == [f \in {} |-> 0]

NotBuilt == [status |-> "none", cycles |-> {}]

\* The approved version that comes first among the rows.
FirstApproved(vs) ==
    {i \in 1..Len(vs) :
        /\ vs[i].status = "approved"
        /\ \A j \in 1..(i - 1) : vs[j].status # "approved"}

\* defn.versions.filter(status='approved').order_by('-version').first():
\* the indices of the approved versions that no approved version exceeds.
LatestApproved(vs) ==
    {i \in 1..Len(vs) :
        /\ vs[i].status = "approved"
        /\ \A j \in 1..Len(vs) : vs[j].status = "approved" => vs[j].version <= vs[i].version}

\* A row of FactDefinitionVersion.dependencies: {"id": ..., "with": ...,
\* "when": ...}, the mapping as target key and template in the order
\* written, "" for an absent "when".
DependencyRow(to, mapping, cond) == [id |-> to, with |-> mapping, when |-> cond]

\* The version with its structured dependencies set.
WithDependencies(v, rows) == [v EXCEPT !.dependencies = rows]

\* taxonomy.py 288-296: the DependencyEdge parsed from each row.
DependencyEdge(d) == [to_fact_id |-> d.id, param_mapping |-> d.with, condition |-> d.when]

\* The FactSpec build_taxonomy registers for a definition, taxonomy.py 299-310.
FactSpec(id, v) ==
    [id |-> id, requires |-> v.requires,
     dependencies |-> [i \in 1..Len(v.dependencies) |-> DependencyEdge(v.dependencies[i])],
     parameters_schema |-> v.parameters_schema, producer |-> v.code,
     version_obj |-> [fact |-> id, version |-> v.version]]

\* The registry after the loop of build_taxonomy, taxonomy.py 274-310.
RegisteredSpecs(defs) ==
    LET live == {f \in DOMAIN defs :
                    defs[f].is_active /\ LatestApproved(defs[f].versions) # {}}
    IN  [f \in live |->
            FactSpec(f, defs[f].versions[CHOOSE i \in LatestApproved(defs[f].versions) : TRUE])]

\* build_dependency_graph, graph.py 7-20: a node per registered fact, an edge
\* fact -> dependency per entry of its flat requires list (add_edge adds the
\* nodes it names).
build_dependency_graph(registry) ==
    LET edges == UNION {{<<f, registry[f].requires[i]>> :
                            i \in 1..Len(registry[f].requires)} : f \in DOMAIN registry}
    IN  [nodes |-> (DOMAIN registry) \cup {e[2] : e \in edges}, edges |-> edges]

FactRank(f) == CHOOSE i \in 1..Len(FactOrder) : FactOrder[i] = f

RECURSIVE DistinctPaths(_, _)
DistinctPaths(nodes, len) ==
    IF len = 0 THEN {<<>>}
    ELSE LET shorter == DistinctPaths(nodes, len - 1)
         IN  shorter \cup
             {Append(p, x) : p \in {q \in shorter : Len(q) = len - 1}, x \in nodes}

\* Whether the path closes into a cycle of the graph without repeating a node.
IsSimpleCycle(graph, p) ==
    /\ Len(p) >= 1
    /\ \A i, j \in 1..Len(p) : p[i] = p[j] => i = j
    /\ \A i \in 1..Len(p) : <<p[i], p[(i % Len(p)) + 1]>> \in graph.edges

\* nx.simple_cycles without the self-loops it reports.
detect_cycles_without_self_loops(graph) ==
    {p \in DistinctPaths(graph.nodes, Cardinality(graph.nodes)) :
        /\ Len(p) >= 2
        /\ IsSimpleCycle(graph, p)
        /\ \A i \in 1..Len(p) : FactRank(p[1]) <= FactRank(p[i])}

\* detect_cycles, graph.py 22-30: list(nx.simple_cycles(graph)), every
\* elementary circuit once (here from its least node on).
detect_cycles(graph) ==
    {p \in DistinctPaths(graph.nodes, Cardinality(graph.nodes)) :
        /\ IsSimpleCycle(graph, p)
        /\ \A i \in 1..Len(p) : FactRank(p[1]) <= FactRank(p[i])}

\* build_taxonomy, taxonomy.py 273-318: the registry, or the raise on a cycle.
build_taxonomy(defs) ==
    LET registry == RegisteredSpecs(defs)
        cycles == detect_cycles(build_dependency_graph(registry))
    IN  IF cycles # {}
        THEN [status |-> "raised", cycles |-> cycles, registry |-> NoRegistry]
        ELSE [status |-> "ok", cycles |-> cycles, registry |-> registry]

(***************************************************************************)
(* Requests, FactInstances and the state no request has touched.           *)
(***************************************************************************)
Requests == 1..NumRequests

\* Python's None, as a value and as an id; no error text.
None == -1
NoId == 0
NoVersion == [fact |-> "", version |-> 0]
NoProvenance == [dependency_instance_ids |-> {}, input_context |-> MkMap(<<>>)]

\* A FactInstance, saved (id > 0) or not.
FactInstance(id, ver, ctx, h, val, st, err, prov) ==
    [id |-> id, fact_version |-> ver, context |-> ctx, context_hash |-> h,
     value |-> val, status |-> st, error |-> err, provenance |-> prov]

NoInstance ==
    FactInstance(NoId, NoVersion, MkMap(<<>>), <<>>, None, "none", "", NoProvenance)

NoStore == [k \in {} |-> NoInstance]

NoResult == [kind |-> "none", inst |-> NoInstance, error |-> ""]

\* A route result before any route call.
NotRouted == [status |-> "none", version |-> NoVersion, context |-> MkMap(<<>>)]

NoRoute ==
    /\ recognizers = <<>>
    /\ question = <<>>
    /\ routed = NotRouted

Idle ==
    /\ engine = [r \in Requests |-> NoRegistry]
    /\ db = <<>>
    /\ fid = {}
    /\ store = [r \in Requests |-> NoStore]
    /\ stack = [r \in Requests |-> <<>>]
    /\ calls = [r \in Requests |-> 0]
    /\ asker = [r \in Requests |-> 0]
    /\ result = [r \in Requests |-> NoResult]
    /\ log = [r \in Requests |-> {}]
    /\ tally = [r \in Requests |-> EmptyBag]

NoRequests == Idle /\ NoRoute

(***************************************************************************)
(* The contexts hash_context is applied to: dicts of at most MaxKeys       *)
(* entries over the keys a, b and user, in every insertion order, whose    *)
(* values are ints, floats, Decimals, dates, ISO strings, and (under a)    *)
(* nested dicts and lists of dicts, with and without a transient key.      *)
(***************************************************************************)
Scalars ==
    {MkInt(i) : i \in 0..MaxInt} \cup {MkFloat(m) : m \in 0..MaxFloat}
    \cup {MkDec(k) : k \in 0..MaxDec} \cup {MkDate(d) : d \in 1..MaxDay}
    \cup {MkStr(isoformat(d)) : d \in 1..MaxDay}

NestedScalars == {MkInt(0), MkDate(1), MkStr(isoformat(1))}

NestedDicts ==
    {MkMap(<<>>)}
    \cup {MkMap(<<Entry(key, val)>>) : key \in {"user", "b"}, val \in NestedScalars}

NestedValues == NestedDicts \cup {MkList(<<m>>) : m \in NestedDicts}

ValuesOf(key) ==
    IF key = "a" THEN Scalars \cup NestedValues
    ELSE IF key = "b" THEN {MkInt(0), MkDate(1)}
    ELSE {MkInt(i) : i \in 0..MaxInt}

EntriesOf(key) == {Entry(key, val) : val \in ValuesOf(key)}

AllEntries == UNION {EntriesOf(key) : key \in {"a", "b", "user"}}

RECURSIVE EntrySeqs(_)
EntrySeqs(len) ==
    IF len = 0 THEN {<<>>}
    ELSE LET shorter == EntrySeqs(len - 1)
         IN  shorter \cup
             {Append(es, e) : es \in {x \in shorter : Len(x) = len - 1},
                              e \in AllEntries}

DistinctKeys(es) == \A i, j \in 1..Len(es) : es[i].k = es[j].k => i = j

ContextDomain == {MkMap(es) : es \in {x \in EntrySeqs(MaxKeys) : DistinctKeys(x)}}

NoContext == MkMap(<<>>)

InitCtx ==
    /\ ctxPair \in ContextDomain \X ContextDomain
    /\ ctxOut = <<>>
    /\ fdefs = NoDefinitions
    /\ reg = NoRegistry
    /\ build = NotBuilt
    /\ NoRequests

\* One request's work on a context: normalise it and hash it.
HashContexts ==
    /\ ctxOut = <<>>
    /\ ctxOut' = [i \in 1..2 |-> [norm |-> normalize_context(ctxPair[i]),
                                  hash |-> hash_context(ctxPair[i])]]
    /\ UNCHANGED <<ctxPair, routeVars, regVars, resVars>>

NextCtx == HashContexts

SpecCtx == InitCtx /\ [][NextCtx]_vars

(***************************************************************************)
(* What a context means, whatever its representation: entries without      *)
(* order and without the transient keys, a date and its ISO string the     *)
(* same day, a float and a Decimal the same number when they are equal as  *)
(* rationals (numerators over the common denominator FloatDen * DecDen).   *)
(***************************************************************************)
IsIsoDay(x) == \E d \in 1..(MaxDay + 1) : x = isoformat(d)

IsoDay(x) == CHOOSE d \in 1..(MaxDay + 1) : x = isoformat(d)

RECURSIVE Meaning(_)
Meaning(v) ==
    IF v.t = "dict" THEN
        [t |-> "dict", n |-> 0, s |-> "",
         kids |-> {[i |-> 0, k |-> v.kids[j].k, v |-> Meaning(v.kids[j].v)] :
                      j \in {x \in 1..Len(v.kids) : v.kids[x].k \notin TransientKeys}}]
    ELSE IF v.t = "list" THEN
        [t |-> "list", n |-> 0, s |-> "",
         kids |-> {[i |-> j, k |-> "", v |-> Meaning(v.kids[j].v)] : j \in 1..Len(v.kids)}]
    ELSE IF v.t = "date" THEN [t |-> "day", n |-> v.n, s |-> "", kids |-> {}]
    ELSE IF v.t = "str" /\ IsIsoDay(v.s) THEN
        [t |-> "day", n |-> IsoDay(v.s), s |-> "", kids |-> {}]
    ELSE IF v.t = "float" THEN [t |-> "number", n |-> v.n * DecDen, s |-> "", kids |-> {}]
    ELSE IF v.t = "Decimal" THEN [t |-> "number", n |-> v.n * FloatDen, s |-> "", kids |-> {}]
    ELSE [t |-> v.t, n |-> v.n, s |-> v.s, kids |-> {}]

\* A context with its transient keys removed at every level, nothing else changed.
RECURSIVE WithoutTransient(_)
WithoutTransient(v) ==
    IF v.t = "dict" THEN
        LET kept == SelectSeq(v.kids, LAMBDA e : e.k \notin TransientKeys)
        IN  MkMap([i \in 1..Len(kept) |-> Entry(kept[i].k, WithoutTransient(kept[i].v))])
    ELSE IF v.t = "list" THEN
        MkList([i \in 1..Len(v.kids) |-> WithoutTransient(v.kids[i].v)])
    ELSE v

RECURSIVE HasTransientKey(_)
HasTransientKey(v) ==
    \E i \in 1..Len(v.kids) :
        (v.t = "dict" /\ v.kids[i].k \in TransientKeys) \/ HasTransientKey(v.kids[i].v)

\* C7: hash stability and distinctness: two contexts hash alike exactly when
\* they mean the same (equal up to key order, date vs ISO string, Decimal vs
\* float, transient keys aside).
C7_HashStableAndDistinct ==
    ctxOut # <<>> =>
        ((Meaning(ctxPair[1]) = Meaning(ctxPair[2])) <=> (ctxOut[1].hash = ctxOut[2].hash))

\* The stable half of C7: contexts that mean the same hash alike.
HashStable ==
    ctxOut # <<>> =>
        ((Meaning(ctxPair[1]) = Meaning(ctxPair[2])) => (ctxOut[1].hash = ctxOut[2].hash))

\* C8: transient-key exclusion: contexts that differ only in transient keys,
\* at any level, hash alike, and a normalised context holds no transient key.
C8_TransientExcluded ==
    ctxOut # <<>> =>
        /\ ~HasTransientKey(ctxOut[1].norm)
        /\ ~HasTransientKey(ctxOut[2].norm)
        /\ (WithoutTransient(ctxPair[1]) = WithoutTransient(ctxPair[2])
               => ctxOut[1].hash = ctxOut[2].hash)

\* C8's case: hashed, the two contexts differ, and only in a transient key
\* of a dict held in a list.
C8_Witness ==
    /\ ctxOut # <<>>
    /\ ctxPair[1] # ctxPair[2]
    /\ WithoutTransient(ctxPair[1]) = WithoutTransient(ctxPair[2])
    /\ \E i \in 1..Len(ctxPair[1].kids) :
          /\ ctxPair[1].kids[i].v.t = "list"
          /\ HasTransientKey(ctxPair[1].kids[i].v)

(***************************************************************************)
(* Registry construction over every set of definitions of three facts:     *)
(* each active or not, its one version approved or draft, requiring any    *)
(* subset of the facts (itself included).                                  *)
(***************************************************************************)
DefinitionChoices ==
    {Definition(active, <<Version(1, st, ListOf(req), NoSchema, "return 0")>>) :
        active \in BOOLEAN, st \in {"approved", "draft"}, req \in SUBSET FactIds}

InitGraph ==
    /\ fdefs \in [FactIds -> DefinitionChoices]
    /\ reg = NoRegistry
    /\ build = NotBuilt
    /\ ctxPair = <<NoContext, NoContext>>
    /\ ctxOut = <<>>
    /\ NoRequests

\* QAEngine.__init__: self.registry = build_taxonomy().
BuildTaxonomy ==
    /\ build.status = "none"
    /\ LET b == build_taxonomy(fdefs)
       IN  /\ build' = [status |-> b.status, cycles |-> b.cycles]
           /\ reg' = b.registry
    /\ UNCHANGED <<fdefs, engine, pureVars, resVars>>

NextGraph == BuildTaxonomy

SpecGraph == InitGraph /\ [][NextGraph]_vars

\* The dependency graph of the definitions that are live (active, with an
\* approved version), read off the persisted rows.
LiveFacts ==
    {f \in FactIds : fdefs[f].is_active /\ fdefs[f].versions[1].status = "approved"}

Requires(f, d) ==
    \E i \in 1..Len(fdefs[f].versions[1].requires) : fdefs[f].versions[1].requires[i] = d

RECURSIVE ReachesIn(_, _, _)
ReachesIn(from, to, steps) ==
    /\ steps > 0
    /\ from \in LiveFacts
    /\ \/ Requires(from, to)
       \/ \E mid \in FactIds : Requires(from, mid) /\ ReachesIn(mid, to, steps - 1)

OnCycle(f) == ReachesIn(f, f, Cardinality(FactIds))

Rotation(p, q) ==
    /\ Len(p) = Len(q)
    /\ \E k \in 0..(Len(p) - 1) : \A i \in 1..Len(p) : q[i] = p[((i + k - 1) % Len(p)) + 1]

ClosedPath(p) ==
    /\ Len(p) >= 1
    /\ \A i, j \in 1..Len(p) : p[i] = p[j] => i = j
    /\ \A i \in 1..Len(p) : p[i] \in LiveFacts /\ Requires(p[i], p[(i % Len(p)) + 1])

\* C10: cycle rejection: the cycles reported are the simple cycles of the
\* dependency graph, each once and with exactly the facts on it, none for an
\* acyclic graph; build_taxonomy raises and leaves no registry exactly when
\* there is one, and gives the registry of the live definitions otherwise.
C10_CycleRejection ==
    build.status # "none" =>
        /\ \A c \in build.cycles : ClosedPath(c)
        /\ \A p \in DistinctPaths(FactIds, Cardinality(FactIds)) :
              ClosedPath(p) => Cardinality({c \in build.cycles : Rotation(p, c)}) = 1
        /\ (\A f \in FactIds : ~OnCycle(f)) => build.cycles = {}
        /\ (build.status = "raised") <=> (build.cycles # {})
        /\ build.status = "raised" => reg = NoRegistry
        /\ build.status = "ok" => DOMAIN reg = LiveFacts
        /\ (LiveFacts = FactIds /\ Requires("A", "B") /\ Requires("B", "C") /\ Requires("C", "A"))
              => \E c \in build.cycles : {c[i] : i \in 1..Len(c)} = {"A", "B", "C"}

\* C10's cases: a build refused for the cycle A -> B -> C -> A alone, and a
\* build accepted with the one edge A -> B.
C10_Witness ==
    /\ build.status = "raised"
    /\ build.cycles = {<<"A", "B", "C">>}
    /\ reg = NoRegistry

C10_WitnessAcyclic ==
    /\ build.status = "ok"
    /\ DOMAIN reg = FactIds
    /\ reg["A"].requires = <<"B">> /\ reg["B"].requires = <<>> /\ reg["C"].requires = <<>>

(***************************************************************************)
(* Registry construction over definitions with structured edges: three     *)
(* live facts, each requiring at most one fact and holding at most one     *)
(* structured edge, conditional or not.                                    *)
(***************************************************************************)
EdgeChoices ==
    {Definition(TRUE, <<WithDependencies(Version(1, "approved", req, NoSchema, "return 0"),
                                         rows)>>) :
        req \in {<<>>} \cup {<<g>> : g \in FactIds},
        rows \in {<<>>} \cup {<<DependencyRow(g, <<>>, cond)>> :
                                 g \in FactIds, cond \in {"", "val > 0"}}}

InitEdges ==
    /\ fdefs \in [FactIds -> EdgeChoices]
    /\ reg = NoRegistry
    /\ build = NotBuilt
    /\ ctxPair = <<NoContext, NoContext>>
    /\ ctxOut = <<>>
    /\ NoRequests

NextEdges == BuildTaxonomy

SpecEdges == InitEdges /\ [][NextEdges]_vars

\* The facts resolve_fact can call from f: the entries of its requires and
\* the targets of its structured rows, read off the persisted rows.
MayResolve(f, d) ==
    \/ Requires(f, d)
    \/ \E i \in 1..Len(fdefs[f].versions[1].dependencies) :
          fdefs[f].versions[1].dependencies[i].id = d

RECURSIVE MayReachIn(_, _, _)
MayReachIn(from, to, steps) ==
    /\ steps > 0
    /\ from \in LiveFacts
    /\ \/ MayResolve(from, to)
       \/ \E mid \in FactIds : MayResolve(from, mid) /\ MayReachIn(mid, to, steps - 1)

\* C11: the graph checked for cycles is an upper bound of the runtime
\* dependencies: every pair (fact, dependency) that resolve_fact can
\* resolve, through requires or through a structured edge whatever its
\* condition, is an edge of the graph, and a build whose definitions hold a
\* cycle of such pairs fails.
C11_GraphBoundsRuntimeDependencies ==
    build.status # "none" =>
        /\ \A f \in LiveFacts, d \in FactIds :
              MayResolve(f, d) =>
                  <<f, d>> \in build_dependency_graph(RegisteredSpecs(fdefs)).edges
        /\ (\E f \in FactIds : MayReachIn(f, f, Cardinality(FactIds)))
              => build.status = "raised"

(***************************************************************************)
(* The resolver, taxonomy.py 70-257, run by concurrent requests over one   *)
(* FactInstance table.  Each request owns a FactStore; a request is either *)
(* one QAEngine.answer_question call or a caller of resolve_fact that      *)
(* reuses its store for up to MaxCalls calls.                              *)
(***************************************************************************)
Users == {1, 2}

\* The raw data collaborator: the balance the ledger holds for each user.
Ledger == [u \in Users |-> 10 * u]

HasKey(c, key) == \E i \in 1..Len(c.kids) : c.kids[i].k = key

Get(c, key) == c.kids[CHOOSE i \in 1..Len(c.kids) : c.kids[i].k = key].v

\* dict assignment c[key] = val: in place for a key that is there, at the end
\* for a new one.
Put(c, key, val) ==
    IF HasKey(c, key)
    THEN MkMap([i \in 1..Len(c.kids) |->
                   IF c.kids[i].k = key THEN Entry(key, val) ELSE c.kids[i]])
    ELSE MkMap(Append(c.kids, Entry(key, val)))

(***************************************************************************)
(* Text as the sequence of its characters, for what the resolver does with *)
(* the characters of a rendered template: str.isdigit, str.replace, int(), *)
(* float().                                                                *)
(***************************************************************************)
DigitChars == <<"0", "1", "2", "3", "4", "5", "6", "7", "8", "9">>

IsDigitChar(ch) == \E i \in 1..Len(DigitChars) : DigitChars[i] = ch

DigitValue(ch) == (CHOOSE i \in 1..Len(DigitChars) : DigitChars[i] = ch) - 1

RECURSIVE Join(_)
Join(cs) == IF cs = <<>> THEN "" ELSE cs[1] \o Join(Tail(cs))

\* The texts held as str values by the contexts of the model.
ContextTexts == {<<"1", ".", "5">>, <<"a">>}

Chars(x) == CHOOSE cs \in ContextTexts : Join(cs) = x

RECURSIVE NatChars(_)
NatChars(i) ==
    IF i < 10 THEN <<DigitChars[i + 1]>>
    ELSE NatChars(i \div 10) \o <<DigitChars[(i % 10) + 1]>>

\* str(value), which is how Jinja2 prints a variable.
str(v) ==
    IF v.t = "int" THEN (IF v.n < 0 THEN <<"-">> \o NatChars(0 - v.n) ELSE NatChars(v.n))
    ELSE Chars(v.s)

\* Template(template_str).render(context), taxonomy.py 139: the template is
\* the sequence of its parts, literal text or {{name}}; an undefined name
\* prints as nothing.
TemplateVar(name) == [var |-> name, text |-> <<>>]

TemplateText(cs) == [var |-> "", text |-> cs]

RECURSIVE render(_, _)
render(template, context) ==
    IF template = <<>> THEN <<>>
    ELSE LET part == template[1]
             out == IF part.var = "" THEN part.text
                    ELSE IF HasKey(context, part.var) THEN str(Get(context, part.var))
                    ELSE <<>>
         IN  out \o render(Tail(template), context)

\* str.isdigit()
isdigit(cs) == Len(cs) > 0 /\ \A i \in 1..Len(cs) : IsDigitChar(cs[i])

\* val.replace('.', '', 1)
ReplaceFirstDot(cs) ==
    IF \E i \in 1..Len(cs) : cs[i] = "."
    THEN LET d == CHOOSE i \in 1..Len(cs) : cs[i] = "." /\ \A j \in 1..(i - 1) : cs[j] # "."
         IN  SubSeq(cs, 1, d - 1) \o SubSeq(cs, d + 1, Len(cs))
    ELSE cs

\* int(val) of a text of digits
RECURSIVE int(_)
int(cs) == IF cs = <<>> THEN 0 ELSE int(SubSeq(cs, 1, Len(cs) - 1)) * 10 + DigitValue(cs[Len(cs)])

RECURSIVE Pow10(_)
Pow10(k) == IF k = 0 THEN 1 ELSE 10 * Pow10(k - 1)

\* float(val) of digits with one '.': the numerator of the nearest float.
float(cs) ==
    LET d == CHOOSE i \in 1..Len(cs) : cs[i] = "."
        k == Len(cs) - d
    IN  RoundHalfEven(int(ReplaceFirstDot(cs)) * FloatDen, Pow10(k))

\* taxonomy.py 141-144: the "simple inference" of the type of a rendered
\* value.
InferType(cs) ==
    IF isdigit(cs) THEN MkInt(int(cs))
    ELSE IF isdigit(ReplaceFirstDot(cs)) THEN MkFloat(float(cs))
    ELSE MkStr(Join(cs))

\* taxonomy.py 134-147: the derived context of a followed edge.
RECURSIVE MapParameters(_, _, _)
MapParameters(dep_context, param_mapping, context) ==
    IF param_mapping = <<>> THEN dep_context
    ELSE MapParameters(Put(dep_context, param_mapping[1].k,
                           InferType(render(param_mapping[1].template, context))),
                       Tail(param_mapping), context)

\* An edge condition that always holds.
execute_expression_holds(expression, names) == [raised |-> FALSE, value |-> TRUE]

\* execute_expression, executor.py 23-36, for the conditions of the model:
\* whether simpleeval raises, and the truth of the value otherwise.  A name
\* that is not defined raises, and so does ordering a str against an int.
execute_expression(expression, names) ==
    IF expression = "val > 0" THEN
        IF ~HasKey(names, "val") THEN [raised |-> TRUE, value |-> FALSE]
        ELSE IF Get(names, "val").t \in {"int", "float"}
             THEN [raised |-> FALSE, value |-> Get(names, "val").n > 0]
        ELSE [raised |-> TRUE, value |-> FALSE]
    ELSE [raised |-> TRUE, value |-> FALSE]

\* taxonomy.py 126-131: whether the edge is passed over.
EdgeSkipped(edge, context) ==
    /\ edge.condition # ""
    /\ LET c == execute_expression(edge.condition, context)
       IN  c.raised \/ ~c.value

\* validate_context with every context accepted.
validate_context_accepts_all(context, schema) == ""

\* validate_context, schema_validation.py 14-24: the message of the
\* ValueError it raises, "" when it returns.  jsonschema checks the context
\* as given: its required keys, and the type of the keys typed as strings.
validate_context(context, schema) ==
    IF schema = NoSchema THEN ""
    ELSE IF \E key \in schema.required : ~HasKey(context, key)
         THEN "Context validation failed: a required property is missing"
    ELSE IF \E key \in schema.strings :
                HasKey(context, key) /\ Get(context, key).t # "str"
         THEN "Context validation failed: not of type 'string'"
    ELSE ""

\* The logic of the facts, as safe_execute (taxonomy.py 342-402) runs it
\* inside the try of taxonomy.py 165-181: value, status, error.
Succeeded(val) == [value |-> val, status |-> "success", error |-> ""]

Failed(msg) == [value |-> None, status |-> "error", error |-> msg]

\* func(deps, context), taxonomy.py 397, not returning.
Hangs == [value |-> None, status |-> "running", error |-> ""]

safe_execute(code, dep_values, context) ==
    IF code = "return Ledger[context['user']]" THEN
        IF HasKey(context, "user") THEN Succeeded(Ledger[Get(context, "user").n])
        ELSE Failed("Error executing fact logic: 'user'")
    ELSE IF code = "return deps['B'] * 2" THEN
        IF \E i \in 1..Len(dep_values) : dep_values[i].k = "B" THEN
            LET b == dep_values[CHOOSE i \in 1..Len(dep_values) : dep_values[i].k = "B"].v
            IN  IF b = None
                THEN Failed("Error executing fact logic: unsupported operand type(s)")
                ELSE Succeeded(b * 2)
        ELSE Failed("Error executing fact logic: 'B'")
    ELSE IF code = "return deps.get('B', 0) + 1" THEN
        IF \E i \in 1..Len(dep_values) : dep_values[i].k = "B" THEN
            LET b == dep_values[CHOOSE i \in 1..Len(dep_values) : dep_values[i].k = "B"].v
            IN  IF b = None
                THEN Failed("Error executing fact logic: unsupported operand type(s)")
                ELSE Succeeded(b + 1)
        ELSE Succeeded(1)
    ELSE IF code = "return deps['B'] + deps['C']" THEN
        IF \A d \in {"B", "C"} : \E i \in 1..Len(dep_values) : dep_values[i].k = d THEN
            LET b == dep_values[CHOOSE i \in 1..Len(dep_values) : dep_values[i].k = "B"].v
                c == dep_values[CHOOSE i \in 1..Len(dep_values) : dep_values[i].k = "C"].v
            IN  IF b = None \/ c = None
                THEN Failed("Error executing fact logic: unsupported operand type(s)")
                ELSE Succeeded(b + c)
        ELSE Failed("Error executing fact logic: 'B'")
    ELSE IF code = "return deps['D'] + 1" THEN
        IF \E i \in 1..Len(dep_values) : dep_values[i].k = "D" THEN
            LET dv == dep_values[CHOOSE i \in 1..Len(dep_values) : dep_values[i].k = "D"].v
            IN  IF dv = None
                THEN Failed("Error executing fact logic: unsupported operand type(s)")
                ELSE Succeeded(dv + 1)
        ELSE Failed("Error executing fact logic: 'D'")
    ELSE IF code = "return deps['B']" THEN
        IF \E i \in 1..Len(dep_values) : dep_values[i].k = "B"
        THEN Succeeded(dep_values[CHOOSE i \in 1..Len(dep_values) : dep_values[i].k = "B"].v)
        ELSE Failed("Error executing fact logic: 'B'")
    ELSE IF code = "return ctx.get('x', 0)" THEN
        \* x, where a context has it, is an int in every context of the model
        IF HasKey(context, "x") THEN Succeeded(Get(context, "x").n) ELSE Succeeded(0)
    ELSE IF code = "return 10" THEN Succeeded(10)
    ELSE IF code = "return 11" THEN Succeeded(11)
    ELSE IF code = "while True: pass" THEN Hangs
    ELSE Succeeded(0)

\* The definitions the requests resolve against: A requires B and takes a
\* string d, B reads the balance of the context's user, C is not active.
ResolverDefs ==
    [f \in FactIds |->
        IF f = "A" THEN
            Definition(TRUE, <<Version(1, "approved", <<"B">>,
                                       [required |-> {"d"}, strings |-> {"d"}],
                                       "return deps['B'] * 2")>>)
        ELSE IF f = "B" THEN
            Definition(TRUE, <<Version(1, "approved", <<>>, NoSchema,
                                       "return Ledger[context['user']]")>>)
        ELSE Definition(FALSE, <<Version(1, "approved", <<>>, NoSchema, "return 0")>>)]

\* The contexts resolve_fact is called with.
CallContexts ==
    {MkMap(<<>>)}
    \cup {MkMap(<<Entry("user", MkInt(u))>>) : u \in Users}
    \cup {MkMap(<<Entry("user", MkInt(1)), Entry("d", dv)>>) :
             dv \in {MkStr(isoformat(1)), MkDate(1)}}

Top(r) == stack[r][Len(stack[r])]

NewFrame(f, c) ==
    [fact_id |-> f, context |-> c, pc |-> "start", next |-> 1, edge |-> 1,
     dep_instances |-> <<>>, value |-> None, status |-> "", error |-> "", elapsed |-> 0]

Event(what, f, h, id) == [ev |-> what, fact |-> f, hash |-> h, id |-> id]

\* A store that never has the key.
StoreHasNothing(st, key) == FALSE

\* FactStore.has, taxonomy.py 67-68.
StoreHas(st, key) == key \in DOMAIN st

\* FactStore.set, taxonomy.py 61-62.
StoreSet(st, key, inst) == [k \in (DOMAIN st) \cup {key} |-> IF k = key THEN inst ELSE st[k]]

\* The dependency's instance dropped instead of kept.
PutDepDropped(deps, dep, inst) == deps

\* The first instance resolved for the id kept.
PutDepKeepFirst(deps, dep, inst) ==
    IF \E i \in 1..Len(deps) : deps[i].k = dep
    THEN deps
    ELSE Append(deps, [k |-> dep, inst |-> inst])

\* dep_instances[dep_id] = ..., a dict assignment: taxonomy.py 121.
PutDep(deps, dep, inst) ==
    IF \E i \in 1..Len(deps) : deps[i].k = dep
    THEN [i \in 1..Len(deps) |-> IF deps[i].k = dep THEN [k |-> dep, inst |-> inst] ELSE deps[i]]
    ELSE Append(deps, [k |-> dep, inst |-> inst])

\* The rows of a fact and context_hash, of whatever version.
RowsOfAnyVersion(rows, ver, h) ==
    {i \in 1..Len(rows) : rows[i].fact_version.fact = ver.fact /\ rows[i].context_hash = h}

\* The rows of a (fact version, context_hash) pair.
RowsFor(rows, ver, h) ==
    {i \in 1..Len(rows) : rows[i].fact_version = ver /\ rows[i].context_hash = h}

Least(S) == CHOOSE i \in S : \A j \in S : i <= j

\* The persistent cache with the lookup finding nothing.
CacheDisabled(rows, ver, h) == {}

\* FactInstance.objects.filter(fact_version, context_hash, status='success'),
\* taxonomy.py 107-111.
CacheLookup(rows, ver, h) == {i \in RowsFor(rows, ver, h) : rows[i].status = "success"}

\* The table without its uniqueness constraint.
no_unique_together(rows, ver, h) == FALSE

\* unique_together = ('fact_version', 'context_hash'), models.py 127: whether
\* inserting a row of this pair violates it.
unique_together(rows, ver, h) == RowsFor(rows, ver, h) # {}

\* The uniqueness violation left to propagate.
IntegrityErrorPropagates(rows, ver, h) == [raised |-> TRUE, inst |-> NoInstance]

\* The IntegrityError of a lost insert race: get_or_create re-reads the row,
\* and so does the handler of taxonomy.py 237-242.
OnIntegrityError(rows, ver, h) == [raised |-> FALSE, inst |-> rows[Least(RowsFor(rows, ver, h))]]

\* A call ends by returning inst: to the caller of the request, or to the
\* parent's dep_instances[...] = resolve_fact(...), taxonomy.py 121 and 149.
ReturnInstance(r, inst) ==
    LET stk == stack[r]
        n == Len(stk)
    IN  IF n = 1 THEN
            /\ stack' = [stack EXCEPT ![r] = <<>>]
            /\ result' = [result EXCEPT ![r] =
                             [kind |-> "returned", inst |-> inst, error |-> ""]]
        ELSE
            LET parent == stk[n - 1]
                spec == engine[r][parent.fact_id]
                flat == parent.next <= Len(spec.requires)
                dep == IF flat THEN spec.requires[parent.next]
                       ELSE spec.dependencies[parent.edge].to_fact_id
            IN  /\ stack' = [stack EXCEPT ![r] =
                                Append(SubSeq(stk, 1, n - 2),
                                       [parent EXCEPT !.dep_instances = PutDep(@, dep, inst),
                                                      !.next = IF flat THEN @ + 1 ELSE @,
                                                      !.edge = IF flat THEN @ ELSE @ + 1])]
                /\ result' = result

\* The raise taken as a return of nothing to the caller.
RaiseErrorCaught(r, msg) == ReturnInstance(r, NoInstance)

\* A call ends by raising: no frame of resolve_fact catches, so the whole
\* chain of calls of the request ends with it.
RaiseError(r, msg) ==
    /\ stack' = [stack EXCEPT ![r] = <<>>]
    /\ result' = [result EXCEPT ![r] = [kind |-> "raised", inst |-> NoInstance, error |-> msg]]

\* The instance returned whatever its status.
MemoizeAndReturn(r, key, inst, status, error) ==
    /\ store' = [store EXCEPT ![r] = StoreSet(@, key, inst)]
    /\ ReturnInstance(r, inst)

\* taxonomy.py 252-257: memoize, then raise on an error status, else return.
MemoizeAndLeave(r, key, inst, status, error) ==
    /\ store' = [store EXCEPT ![r] = StoreSet(@, key, inst)]
    /\ IF status = "error"
       THEN RaiseError(r, "Error computing fact: " \o error)
       ELSE ReturnInstance(r, inst)

Note(r, e) ==
    /\ log' = [log EXCEPT ![r] = @ \cup {e}]
    /\ tally' = [tally EXCEPT ![r] = @ (+) SetToBag({e})]

\* Requests are alike: request r starts only after request r - 1 has.
InTurn(r) == \A q \in Requests : q < r => calls[q] > 0

\* QAEngine.answer_question, engine.py 23-59, for a question that routes to
\* fact f with no captured parameter: context['user'] = user, a new
\* FactStore, resolve_fact.
AnswerQuestion(r, f, u) ==
    /\ calls[r] = 0 /\ stack[r] = <<>> /\ InTurn(r)
    /\ f \in DOMAIN reg
    /\ engine' = [engine EXCEPT ![r] = reg]
    /\ asker' = [asker EXCEPT ![r] = u]
    /\ calls' = [calls EXCEPT ![r] = 1]
    /\ stack' = [stack EXCEPT ![r] = <<NewFrame(f, MkMap(<<Entry("user", MkInt(u))>>))>>]
    /\ result' = [result EXCEPT ![r] = NoResult]
    /\ log' = [log EXCEPT ![r] = {}]
    /\ tally' = tally
    /\ UNCHANGED <<db, fid, store, pureVars, fdefs, reg, build>>

\* A caller's resolve_fact(reg, store, f, c) with the store of request r and
\* the registry the caller got together with it (test_provenance.py 32-33,
\* run_fact_tests.py 50-51).
Call(r, f, c) ==
    /\ calls[r] < MaxCalls /\ stack[r] = <<>> /\ asker[r] = 0 /\ InTurn(r)
    /\ engine' = [engine EXCEPT ![r] = IF calls[r] = 0 THEN reg ELSE @]
    /\ calls' = [calls EXCEPT ![r] = @ + 1]
    /\ stack' = [stack EXCEPT ![r] = <<NewFrame(f, c)>>]
    /\ result' = [result EXCEPT ![r] = NoResult]
    /\ log' = [log EXCEPT ![r] = {}]
    /\ tally' = tally
    /\ UNCHANGED <<db, fid, store, asker, pureVars, fdefs, reg, build>>

\* taxonomy.py 80-114: the store, the registry, the schema, the cache.
Begin(r) ==
    /\ stack[r] # <<>> /\ Top(r).pc = "start"
    /\ LET fr == Top(r)
           h == hash_context(fr.context)
           key == <<fr.fact_id, h>>
       IN  IF StoreHas(store[r], key) THEN
               /\ ReturnInstance(r, store[r][key])
               /\ Note(r, Event("memo", fr.fact_id, h, store[r][key].id))
               /\ UNCHANGED <<db, fid, store>>
           ELSE IF fr.fact_id \notin DOMAIN engine[r] THEN
               /\ RaiseError(r, "Fact not registered")
               /\ Note(r, Event("unregistered", fr.fact_id, h, NoId))
               /\ UNCHANGED <<db, fid, store>>
           ELSE
               LET spec == engine[r][fr.fact_id]
                   msg == IF spec.parameters_schema # NoSchema
                          THEN validate_context(fr.context, spec.parameters_schema)
                          ELSE ""
                   cached == CacheLookup(db, spec.version_obj, h)
               IN  IF msg # "" THEN
                       LET inst == FactInstance(NoId, NoVersion, normalize_context(fr.context),
                                                h, None, "error", msg, NoProvenance)
                       IN  /\ store' = [store EXCEPT ![r] = StoreSet(@, key, inst)]
                           /\ ReturnInstance(r, inst)
                           /\ Note(r, Event("invalid", fr.fact_id, h, NoId))
                           /\ UNCHANGED <<db, fid>>
                   ELSE IF cached # {} THEN
                       /\ store' = [store EXCEPT ![r] = StoreSet(@, key, db[Least(cached)])]
                       /\ ReturnInstance(r, db[Least(cached)])
                       /\ Note(r, Event("cached", fr.fact_id, h, Least(cached)))
                       /\ UNCHANGED <<db, fid>>
                   ELSE
                       /\ stack' = [stack EXCEPT ![r][Len(stack[r])].pc = "deps"]
                       /\ Note(r, Event("miss", fr.fact_id, h, NoId))
                       /\ UNCHANGED <<db, fid, store, result>>
    /\ UNCHANGED <<calls, asker, pureVars, regVars>>

\* taxonomy.py 120-121: the next entry of requires, with the same context.
CallDependency(r) ==
    /\ stack[r] # <<>> /\ Top(r).pc = "deps"
    /\ Top(r).next <= Len(engine[r][Top(r).fact_id].requires)
    /\ LET fr == Top(r)
           dep == engine[r][fr.fact_id].requires[fr.next]
       IN  /\ stack' = [stack EXCEPT ![r] = Append(@, NewFrame(dep, fr.context))]
           /\ Note(r, Event("dependency", dep, hash_context(fr.context), NoId))
    /\ UNCHANGED <<db, fid, store, calls, asker, result, pureVars, regVars>>

\* taxonomy.py 124-131: the next structured edge has a condition that is
\* false or raises: continue.
SkipEdge(r) ==
    /\ stack[r] # <<>> /\ Top(r).pc = "deps"
    /\ Top(r).next > Len(engine[r][Top(r).fact_id].requires)
    /\ Top(r).edge <= Len(engine[r][Top(r).fact_id].dependencies)
    /\ LET fr == Top(r)
           edge == engine[r][fr.fact_id].dependencies[fr.edge]
       IN  /\ EdgeSkipped(edge, fr.context)
           /\ stack' = [stack EXCEPT ![r][Len(stack[r])].edge = @ + 1]
           /\ Note(r, Event("skip", edge.to_fact_id, hash_context(fr.context), NoId))
    /\ UNCHANGED <<db, fid, store, calls, asker, result, pureVars, regVars>>

\* taxonomy.py 124-149: the next structured edge is followed: the derived
\* context, then the recursive call.
FollowEdge(r) ==
    /\ stack[r] # <<>> /\ Top(r).pc = "deps"
    /\ Top(r).next > Len(engine[r][Top(r).fact_id].requires)
    /\ Top(r).edge <= Len(engine[r][Top(r).fact_id].dependencies)
    /\ LET fr == Top(r)
           edge == engine[r][fr.fact_id].dependencies[fr.edge]
           dep_context == MapParameters(fr.context, edge.param_mapping, fr.context)
       IN  /\ ~EdgeSkipped(edge, fr.context)
           /\ stack' = [stack EXCEPT ![r] = Append(@, NewFrame(edge.to_fact_id, dep_context))]
           /\ Note(r, Event("edge", edge.to_fact_id, hash_context(dep_context), NoId))
    /\ UNCHANGED <<db, fid, store, calls, asker, result, pureVars, regVars>>

\* taxonomy.py 151-181: the dependency values, then the logic.
Execute(r) ==
    /\ stack[r] # <<>> /\ Top(r).pc = "deps"
    /\ Top(r).next > Len(engine[r][Top(r).fact_id].requires)
    /\ Top(r).edge > Len(engine[r][Top(r).fact_id].dependencies)
    /\ LET fr == Top(r)
           dep_values == [i \in 1..Len(fr.dep_instances) |->
                             [k |-> fr.dep_instances[i].k, v |-> fr.dep_instances[i].inst.value]]
           out == safe_execute(engine[r][fr.fact_id].producer, dep_values, fr.context)
       IN  /\ stack' = [stack EXCEPT ![r][Len(stack[r])] =
                           [fr EXCEPT !.value = out.value, !.status = out.status,
                                      !.error = out.error,
                                      !.pc = IF out = Hangs THEN "running" ELSE "persist"]]
           /\ Note(r, Event("execute", fr.fact_id, hash_context(fr.context), NoId))
    /\ UNCHANGED <<db, fid, store, calls, asker, result, pureVars, regVars>>

\* The row found is overwritten with the values just computed.
update_or_create(rows, i, value, status, error) ==
    [rows EXCEPT ![i].value = value, ![i].status = status, ![i].error = error]

\* FactInstance.objects.get_or_create on a pair that has a row, taxonomy.py
\* 217-227: the defaults are used only to create, the row found stays as it is.
get_or_create(rows, i, value, status, error) == rows

\* The edges written whether or not the row was created.
LinkDependenciesAlways(created, parent, dep_instances, rows) ==
    LET persisted == {j \in 1..Len(dep_instances) : dep_instances[j].inst.id # NoId}
    IN  {[id |-> Cardinality(rows) + Cardinality({j \in persisted : j <= i}),
          parent_instance |-> parent,
          dependency_instance |-> dep_instances[i].inst.id,
          dependency_fact_id |-> dep_instances[i].k] : i \in persisted}

\* taxonomy.py 228-236: if created, one new FactInstanceDependency row per
\* persisted dependency instance, in the order of the dependency map.
LinkDependencies(created, parent, dep_instances, rows) ==
    IF created THEN LinkDependenciesAlways(created, parent, dep_instances, rows) ELSE {}

\* taxonomy.py 217: get_or_create reads the row of the pair first.
GetOrCreateLookup(r) ==
    /\ stack[r] # <<>> /\ Top(r).pc = "persist"
    /\ LET fr == Top(r)
           h == hash_context(fr.context)
           ver == engine[r][fr.fact_id].version_obj
           found == RowsFor(db, ver, h)
       IN  IF found # {} THEN
               /\ db' = get_or_create(db, Least(found), fr.value, fr.status, fr.error)
               /\ fid' = fid \cup LinkDependencies(FALSE, Least(found), fr.dep_instances, fid)
               /\ MemoizeAndLeave(r, <<fr.fact_id, h>>, db'[Least(found)], fr.status, fr.error)
               /\ Note(r, Event("found", fr.fact_id, h, Least(found)))
           ELSE
               /\ stack' = [stack EXCEPT ![r][Len(stack[r])].pc = "create"]
               /\ UNCHANGED <<db, fid, store, result, log, tally>>
    /\ UNCHANGED <<calls, asker, pureVars, regVars>>

\* taxonomy.py 215-242: get_or_create inserts the row it did not find, and
\* with it the dependency edges, in one transaction; on a uniqueness
\* violation the row that won is read back.
GetOrCreateInsert(r) ==
    /\ stack[r] # <<>> /\ Top(r).pc = "create"
    /\ LET fr == Top(r)
           h == hash_context(fr.context)
           ver == engine[r][fr.fact_id].version_obj
           key == <<fr.fact_id, h>>
           persisted == {i \in 1..Len(fr.dep_instances) : fr.dep_instances[i].inst.id # NoId}
           provenance == [dependency_instance_ids |->
                              {fr.dep_instances[i].inst.id : i \in persisted},
                          input_context |-> normalize_context(fr.context)]
           row == FactInstance(Len(db) + 1, ver, normalize_context(fr.context), h,
                               fr.value, fr.status, fr.error, provenance)
       IN  IF unique_together(db, ver, h) THEN
               LET back == OnIntegrityError(db, ver, h)
               IN  /\ IF back.raised
                      THEN RaiseError(r, "IntegrityError") /\ store' = store
                      ELSE MemoizeAndLeave(r, key, back.inst, fr.status, fr.error)
                   /\ Note(r, Event("lost", fr.fact_id, h, back.inst.id))
                   /\ UNCHANGED <<db, fid>>
           ELSE
               /\ db' = Append(db, row)
               /\ fid' = fid \cup LinkDependencies(TRUE, row.id, fr.dep_instances, fid)
               /\ MemoizeAndLeave(r, key, row, fr.status, fr.error)
               /\ Note(r, Event("insert", fr.fact_id, h, row.id))
    /\ UNCHANGED <<calls, asker, pureVars, regVars>>

Init ==
    /\ fdefs = ResolverDefs
    /\ reg = build_taxonomy(ResolverDefs).registry
    /\ build = [status |-> build_taxonomy(ResolverDefs).status,
                cycles |-> build_taxonomy(ResolverDefs).cycles]
    /\ ctxPair = <<NoContext, NoContext>>
    /\ ctxOut = <<>>
    /\ NoRequests

Next ==
    \E r \in Requests :
        \/ \E f \in FactIds, u \in Users : AnswerQuestion(r, f, u)
        \/ \E f \in FactIds, c \in CallContexts : Call(r, f, c)
        \/ Begin(r)
        \/ CallDependency(r)
        \/ Execute(r)
        \/ GetOrCreateLookup(r)
        \/ GetOrCreateInsert(r)

Spec == Init /\ [][Next]_vars

\* C1: the cache's uniqueness contract: at most one FactInstance row per
\* (fact version, context_hash) pair, whatever the interleaving.
C1_OneRowPerKey ==
    \A i, j \in 1..Len(db) :
        (db[i].fact_version = db[j].fact_version /\ db[i].context_hash = db[j].context_hash)
            => i = j

\* What the claims say of a call, read off the state before it acts.
TopHash(r) == hash_context(Top(r).context)

TopKey(r) == <<Top(r).fact_id, TopHash(r)>>

TopVersion(r) == reg[Top(r).fact_id].version_obj

\* The request's innermost call, at program point pc, acts in this step.
Acts(r, pc) == stack[r] # <<>> /\ Top(r).pc = pc /\ stack'[r] # stack[r]

\* The context meets the schema: every required key is there and every key
\* typed as a string holds a str.
MeetsSchema(c, schema) ==
    /\ \A key \in schema.required : \E i \in 1..Len(c.kids) : c.kids[i].k = key
    /\ \A key \in schema.strings :
          \A i \in 1..Len(c.kids) : c.kids[i].k = key => c.kids[i].v.t = "str"

SuccessRows(r) ==
    {i \in 1..Len(db) : /\ db[i].fact_version = TopVersion(r)
                        /\ db[i].context_hash = TopHash(r)
                        /\ db[i].status = "success"}

ErrorRows(r) ==
    {i \in 1..Len(db) : /\ db[i].fact_version = TopVersion(r)
                        /\ db[i].context_hash = TopHash(r)
                        /\ db[i].status = "error"}

KeyRows(r) ==
    {i \in 1..Len(db) : /\ db[i].fact_version = TopVersion(r)
                        /\ db[i].context_hash = TopHash(r)}

\* C1's case: two requests both missed the cache for one key, both ran the
\* logic and both reached the insert; one row of the key is in the table.
C1_Witness ==
    \E r1, r2 \in Requests :
        /\ r1 # r2 /\ stack[r1] = <<>> /\ stack[r2] = <<>>
        /\ \E e1 \in log[r1], e2 \in log[r2], x1 \in log[r1], x2 \in log[r2] :
              /\ e1.ev = "insert" /\ e2.ev = "lost"
              /\ x1.ev = "execute" /\ x2.ev = "execute"
              /\ e1.fact = e2.fact /\ e1.hash = e2.hash
              /\ x1.fact = e1.fact /\ x2.fact = e1.fact
              /\ Cardinality({i \in 1..Len(db) : db[i].context_hash = e1.hash
                                 /\ db[i].fact_version.fact = e1.fact}) = 1

\* C2 as stated: with a success row of (version of F, hash(C)) in the table,
\* resolve_fact(F, C) with a fresh store returns that row, resolves no
\* dependency, runs no logic and writes no row.
C2_CacheHitWhateverTheContext ==
    [][\A r \in Requests :
          (/\ Acts(r, "start") /\ Len(stack[r]) = 1 /\ store[r] = NoStore
           /\ Top(r).fact_id \in DOMAIN reg
           /\ SuccessRows(r) # {})
          => /\ stack'[r] = <<>>
             /\ result'[r].kind = "returned"
             /\ result'[r].inst.id \in SuccessRows(r)
             /\ result'[r].inst = db[result'[r].inst.id]
             /\ db' = db /\ fid' = fid
             /\ ~\E e \in log'[r] : e.ev \in {"execute", "dependency", "insert"}]_vars

\* C2, amended: the same, for a context that meets F's parameters_schema.
C2_CacheHit ==
    [][\A r \in Requests :
          (/\ Acts(r, "start") /\ Len(stack[r]) = 1 /\ store[r] = NoStore
           /\ Top(r).fact_id \in DOMAIN reg
           /\ MeetsSchema(Top(r).context, reg[Top(r).fact_id].parameters_schema)
           /\ SuccessRows(r) # {})
          => /\ stack'[r] = <<>>
             /\ result'[r].kind = "returned"
             /\ result'[r].inst.id \in SuccessRows(r)
             /\ result'[r].inst = db[result'[r].inst.id]
             /\ db' = db /\ fid' = fid
             /\ ~\E e \in log'[r] : e.ev \in {"execute", "dependency", "insert"}]_vars

\* C2's case: a request's first call, with its new store, was answered from
\* the table, for a fact that has a dependency.
C2_Witness ==
    \E r \in Requests :
        /\ calls[r] = 1 /\ stack[r] = <<>> /\ result[r].kind = "returned"
        /\ result[r].inst.status = "success" /\ result[r].inst.id # NoId
        /\ result[r].inst.fact_version.fact = "A"
        /\ \A e \in log[r] : e.ev = "cached"
        /\ log[r] # {}

\* C3: race reconciliation: of two resolvers at the insert for one key, the
\* one that acts first inserts the row; the other writes nothing, memoizes
\* the row that is there and returns it, and if it raises it is for the
\* error status of its own logic, never for the uniqueness violation.
C3_RaceReconciled ==
    [][\A r \in Requests :
          Acts(r, "create") =>
              IF KeyRows(r) = {} THEN
                  /\ Len(db') = Len(db) + 1
                  /\ db'[Len(db')].fact_version = TopVersion(r)
                  /\ db'[Len(db')].context_hash = TopHash(r)
                  /\ store'[r][TopKey(r)] = db'[Len(db')]
              ELSE
                  /\ db' = db /\ fid' = fid
                  /\ Cardinality(KeyRows(r)) = 1
                  /\ TopKey(r) \in DOMAIN store'[r]
                  /\ store'[r][TopKey(r)].id \in KeyRows(r)
                  /\ store'[r][TopKey(r)] = db[store'[r][TopKey(r)].id]
                  /\ Len(stack[r]) = 1 =>
                        \/ result'[r].kind = "returned" /\ result'[r].inst = store'[r][TopKey(r)]
                        \/ result'[r].kind = "raised" /\ Top(r).status = "error"]_vars

\* C3's case: one request inserted the row of a key, another lost the insert
\* for it and returned the winner's row.
C3_Witness ==
    \E r1, r2 \in Requests :
        /\ r1 # r2 /\ stack[r2] = <<>> /\ result[r2].kind = "returned"
        /\ \E e1 \in log[r1], e2 \in log[r2] :
              /\ e1.ev = "insert" /\ e2.ev = "lost"
              /\ e1.fact = e2.fact /\ e1.hash = e2.hash
              /\ e2.id = e1.id
              /\ result[r2].inst.id = e1.id
              /\ store[r2][<<e2.fact, e2.hash>>].id = e1.id

ValidationMessages ==
    {"Context validation failed: a required property is missing",
     "Context validation failed: not of type 'string'"}

C5_ErrorsRaisedNotReturned ==
    \A r \in Requests :
        (result[r].kind = "returned" /\ result[r].inst.status = "error")
            => /\ result[r].inst.id = NoId
               /\ result[r].inst.error \in ValidationMessages

\* C6: a failing logic leaves an error row for its key, and a later call for
\* the same fact and context with a new store ends at the cache lookup: it
\* goes on neither to the dependencies nor to the logic.
C6_ErrorRowStopsReexecution ==
    [][\A r \in Requests :
          /\ (Acts(r, "create") /\ Top(r).status = "error" /\ KeyRows(r) = {})
                => (Len(db') = Len(db) + 1 /\ db'[Len(db')].status = "error")
          /\ (/\ Acts(r, "start") /\ Len(stack[r]) = 1 /\ store[r] = NoStore
              /\ Top(r).fact_id \in DOMAIN reg
              /\ \E i \in ErrorRows(r) : db[i].context = Top(r).context)
                => stack'[r] = <<>>]_vars

\* C9: what answer_question persists for one user's question is that user's
\* alone: two users' questions never end with the same row, and their
\* context hashes differ.
C9_RowsArePerUser ==
    \A r1, r2 \in Requests :
        (/\ asker[r1] # 0 /\ asker[r2] # 0 /\ asker[r1] # asker[r2]
         /\ result[r1].kind = "returned" /\ result[r2].kind = "returned"
         /\ result[r1].inst.id # NoId /\ result[r2].inst.id # NoId
         /\ result[r1].inst.fact_version = result[r2].inst.fact_version)
            => /\ result[r1].inst.id # result[r2].inst.id
               /\ result[r1].inst.context_hash # result[r2].inst.context_hash

(***************************************************************************)
(* The resolver over definitions with structured edges.  A holds the edge  *)
(* to B that maps x <- "{{val}}", unconditional or under "val > 0", or     *)
(* names the unregistered C in its requires or in a second edge; its logic *)
(* tolerates the absence of B.                                             *)
(***************************************************************************)
Mapping == <<[k |-> "x", template |-> <<TemplateVar("val")>>]>>

AVersions ==
    {WithDependencies(Version(1, "approved", req, NoSchema, "return deps.get('B', 0) + 1"), rows) :
        req \in {<<>>},
        rows \in {<<DependencyRow("B", Mapping, "")>>,
                  <<DependencyRow("B", Mapping, "val > 0")>>,
                  <<DependencyRow("B", Mapping, "val > 0"), DependencyRow("C", <<>>, "")>>}}
    \cup {Version(1, "approved", <<"C">>, NoSchema, "return deps.get('B', 0) + 1")}

DepsDefs(a) ==
    [f \in FactIds |->
        IF f = "A" THEN Definition(TRUE, <<a>>)
        ELSE IF f = "B" THEN
            Definition(TRUE, <<Version(1, "approved", <<>>, NoSchema, "return 10")>>)
        ELSE Definition(FALSE, <<Version(1, "approved", <<>>, NoSchema, "return 0")>>)]

\* The contexts the callers pass: val absent, a positive and a negative
\* int, a str that reads as a number and one that does not.
DepsContexts ==
    {MkMap(<<>>)}
    \cup {MkMap(<<Entry("val", v)>>) :
             v \in {MkInt(5), MkInt(0 - 5)} \cup {MkStr(Join(cs)) : cs \in ContextTexts}}

InitDeps ==
    /\ fdefs \in {DepsDefs(a) : a \in AVersions}
    /\ reg = build_taxonomy(fdefs).registry
    /\ build = [status |-> build_taxonomy(fdefs).status,
                cycles |-> build_taxonomy(fdefs).cycles]
    /\ ctxPair = <<NoContext, NoContext>>
    /\ ctxOut = <<>>
    /\ NoRequests

NextDeps ==
    \E r \in Requests :
        \/ \E f \in {"A", "C"}, c \in DepsContexts : calls[r] = 0 /\ Call(r, f, c)
        \/ Begin(r)
        \/ CallDependency(r)
        \/ SkipEdge(r)
        \/ FollowEdge(r)
        \/ Execute(r)
        \/ GetOrCreateLookup(r)
        \/ GetOrCreateInsert(r)

SpecDeps == InitDeps /\ [][NextDeps]_vars

\* The innermost call of the request is at its next structured edge.
AtEdge(r) ==
    /\ stack[r] # <<>> /\ Top(r).pc = "deps"
    /\ Top(r).next > Len(engine[r][Top(r).fact_id].requires)
    /\ Top(r).edge <= Len(engine[r][Top(r).fact_id].dependencies)

CurrentEdge(r) == engine[r][Top(r).fact_id].dependencies[Top(r).edge]

\* What a condition says of a context: no condition, or val is a number
\* above zero.
ConditionHolds(cond, c) ==
    \/ cond = ""
    \/ /\ cond = "val > 0"
       /\ \E i \in 1..Len(c.kids) :
             c.kids[i].k = "val" /\ c.kids[i].v.t \in {"int", "float"} /\ c.kids[i].v.n > 0

\* C12: conditional-edge skip: at an edge whose condition is false or
\* raises, the call moves to its next edge and nothing else happens: no call
\* of the target, no entry in the dependency map, no row, nothing memoized;
\* and a parent all of whose edges to B were skipped is stored as a success
\* with the value its logic gives without B (1, where B's 10 would give
\* 11 and a null B an error), with no dependency recorded.
C12_ConditionalEdgeSkip ==
    /\ [][\A r \in Requests :
            (AtEdge(r) /\ stack'[r] # stack[r]
                 /\ ~ConditionHolds(CurrentEdge(r).condition, Top(r).context))
            => /\ stack'[r] = [stack[r] EXCEPT ![Len(stack[r])].edge = @ + 1]
               /\ db' = db /\ fid' = fid /\ store' = store /\ result' = result]_vars
    /\ [](\A i \in 1..Len(db) :
            (/\ db[i].fact_version.fact = "A"
             /\ \A j \in 1..Len(fdefs["A"].versions[1].dependencies) :
                   LET row == fdefs["A"].versions[1].dependencies[j]
                   IN  row.id = "B" => ~ConditionHolds(row.when, db[i].context))
            => /\ db[i].status = "success" /\ db[i].value = 1
               /\ db[i].provenance.dependency_instance_ids = {}
               /\ \A e \in fid : e.parent_instance # i)

\* C12's case: A called with val = -5 under the condition val > 0: the edge
\* was skipped and A returned 1.
C12_Witness ==
    \E r \in Requests :
        /\ result[r].kind = "returned"
        /\ result[r].inst.fact_version.fact = "A"
        /\ result[r].inst.context = MkMap(<<Entry("val", MkInt(0 - 5))>>)
        /\ result[r].inst.value = 1
        /\ \E e \in log[r] : e.ev = "skip" /\ e.fact = "B"
        /\ \A e \in log[r] : e.ev # "edge"

\* A rendered text that reads as a number: digits, with an optional sign
\* and an optional fraction.
Unsigned(cs) == IF cs # <<>> /\ cs[1] = "-" THEN Tail(cs) ELSE cs

LooksNumeric(cs) == isdigit(Unsigned(cs)) \/ isdigit(ReplaceFirstDot(Unsigned(cs)))

NumberOf(cs) ==
    LET sign == IF cs[1] = "-" THEN 0 - 1 ELSE 1
    IN  IF isdigit(Unsigned(cs)) THEN MkInt(sign * int(Unsigned(cs)))
        ELSE MkFloat(sign * float(Unsigned(cs)))

RECURSIVE Derived(_, _, _)
Derived(c, mapping, parent) ==
    IF mapping = <<>> THEN c
    ELSE LET text == render(mapping[1].template, parent)
         IN  Derived(Put(c, mapping[1].k,
                         IF LooksNumeric(text) THEN NumberOf(text) ELSE MkStr(Join(text))),
                     Tail(mapping), parent)

\* C13: parameter mapping: a followed edge calls its target with the parent
\* context in which each mapped key holds its rendered template, as a
\* number whenever the rendered text reads as one; the parent's frame and
\* context are as they were.
C13_ParameterMapping ==
    [][\A r \in Requests :
          (AtEdge(r) /\ stack'[r] # stack[r]
               /\ ConditionHolds(CurrentEdge(r).condition, Top(r).context))
          => /\ Len(stack'[r]) = Len(stack[r]) + 1
             /\ SubSeq(stack'[r], 1, Len(stack[r])) = stack[r]
             /\ Top(r)'.fact_id = CurrentEdge(r).to_fact_id
             /\ Top(r)'.context =
                    Derived(Top(r).context, CurrentEdge(r).param_mapping, Top(r).context)]_vars

\* The mapping of a positive int, which is the case of the test: the row of
\* B holds x as the int 5, and the row of A no x.
C13_MapsPositiveInt ==
    \A i \in 1..Len(db) :
        /\ (db[i].fact_version.fact = "B" /\ HasKey(db[i].context, "x")
               /\ HasKey(db[i].context, "val") /\ Get(db[i].context, "val") = MkInt(5))
            => Get(db[i].context, "x") = MkInt(5)
        /\ db[i].fact_version.fact = "A" => ~HasKey(db[i].context, "x")

\* C20: an unregistered fact id: the call that finds its id absent from the
\* registry ends the whole request by raising, with no row written and
\* nothing memoized, be it the top-level call or the call of a dependency;
\* no row and no store key ever names an unregistered fact.
C20_UnregisteredRaises ==
    /\ [][\A r \in Requests :
            (/\ stack[r] # <<>> /\ Top(r).pc = "start" /\ stack'[r] # stack[r]
             /\ Top(r).fact_id \notin DOMAIN engine[r])
            => /\ result'[r].kind = "raised" /\ result'[r].inst = NoInstance
               /\ stack'[r] = <<>>
               /\ db' = db /\ fid' = fid /\ store' = store]_vars
    /\ [](\A i \in 1..Len(db) : db[i].fact_version.fact \in DOMAIN reg)
    /\ [](\A r \in Requests : \A key \in DOMAIN store[r] : key[1] \in DOMAIN engine[r])

\* C20's cases: one request raised for C called at the top, the other for
\* C reached through a structured edge of A after B was resolved.
C20_Witness ==
    \E r1, r2 \in Requests :
        /\ result[r1].kind = "raised" /\ result[r2].kind = "raised"
        /\ log[r1] = {Event("unregistered", "C", hash_context(MkMap(<<>>)), NoId)}
        /\ \E e \in log[r2] : e.ev = "edge" /\ e.fact = "C"
        /\ \E e \in log[r2] : e.ev = "unregistered" /\ e.fact = "C"
        /\ \A key \in DOMAIN store[r2] : key[1] = "B"
        /\ store[r2] # NoStore

\* The same through the flat requires of A.
C20_WitnessRequires ==
    \E r \in Requests :
        /\ result[r].kind = "raised"
        /\ \E e \in log[r] : e.ev = "dependency" /\ e.fact = "C"
        /\ \E e \in log[r] : e.ev = "unregistered" /\ e.fact = "C"

\* The instance the dependency map of a frame holds for a fact id.
DepInstance(fr, dep) ==
    fr.dep_instances[CHOOSE i \in 1..Len(fr.dep_instances) : fr.dep_instances[i].k = dep].inst

timeout == 5

TimeoutDefs ==
    [f \in FactIds |->
        IF f = "A" THEN
            Definition(TRUE, <<Version(1, "approved", <<"B">>, NoSchema, "return deps['B'] * 2")>>)
        ELSE IF f = "B" THEN
            Definition(TRUE, <<Version(1, "approved", <<>>, NoSchema, "while True: pass")>>)
        ELSE Definition(TRUE, <<Version(1, "approved", <<>>, NoSchema, "return 10")>>)]

InitTimeout ==
    /\ fdefs = TimeoutDefs
    /\ reg = build_taxonomy(TimeoutDefs).registry
    /\ build = [status |-> build_taxonomy(TimeoutDefs).status,
                cycles |-> build_taxonomy(TimeoutDefs).cycles]
    /\ ctxPair = <<NoContext, NoContext>>
    /\ ctxOut = <<>>
    /\ NoRequests

\* taxonomy.py 397: a time unit passes inside func(deps, context).  Nothing
\* in safe_execute reads its timeout parameter, so nothing else happens;
\* the model stops counting one unit past the budget.
Tick(r) ==
    /\ stack[r] # <<>> /\ Top(r).pc = "running"
    /\ Top(r).elapsed <= timeout
    /\ stack' = [stack EXCEPT ![r][Len(stack[r])].elapsed = @ + 1]
    /\ UNCHANGED <<db, fid, store, calls, asker, result, log, tally, pureVars, regVars>>

NextTimeout ==
    \E r \in Requests :
        \/ \E f \in FactIds : calls[r] = 0 /\ Call(r, f, MkMap(<<>>))
        \/ Begin(r)
        \/ CallDependency(r)
        \/ Execute(r)
        \/ Tick(r)
        \/ GetOrCreateLookup(r)
        \/ GetOrCreateInsert(r)

SpecTimeout == InitTimeout /\ [][NextTimeout]_vars

\* C15: timeout enforcement: logic is cut off once its time budget is
\* exceeded: no call is ever still inside its logic with more than the
\* budget elapsed.
C15_TimeoutEnforced ==
    \A r \in Requests :
        \A i \in 1..Len(stack[r]) :
            stack[r][i].pc = "running" => stack[r][i].elapsed <= timeout

(***************************************************************************)
(* Registry construction over definitions with several versions: A and B   *)
(* active or not, each with up to MaxVersions versions of distinct         *)
(* numbers, in any row order and of any status; C is not active.           *)
(***************************************************************************)
Statuses == {"draft", "approved", "deprecated"}

\* unique_together = ('fact_definition', 'version'), models.py 79: the
\* versions of a definition have distinct numbers.

VersionLists ==
    {[i \in 1..Len(nums) |->
         Version(nums[i], sts[i], <<>>, NoSchema,
                 IF nums[i] = 1 THEN "return 10" ELSE "return 11")] :
        nums \in {q \in DistinctPaths(1..MaxVersions, MaxVersions) :
                    \A i, j \in 1..Len(q) : q[i] = q[j] => i = j},
        sts \in [1..MaxVersions -> Statuses]}

SelectChoices == {Definition(active, vs) : active \in BOOLEAN, vs \in VersionLists}

InitSelect ==
    /\ fdefs \in {[f \in FactIds |->
                      IF f = "A" THEN a ELSE IF f = "B" THEN b
                      ELSE Definition(FALSE, <<Version(1, "approved", <<>>, NoSchema,
                                                       "return 0")>>)] :
                      a \in SelectChoices, b \in SelectChoices}
    /\ reg = NoRegistry
    /\ build = NotBuilt
    /\ ctxPair = <<NoContext, NoContext>>
    /\ ctxOut = <<>>
    /\ NoRequests

NextSelect == BuildTaxonomy

SpecSelect == InitSelect /\ [][NextSelect]_vars

\* The numbers of the approved versions of a definition.
ApprovedNumbers(f) ==
    {fdefs[f].versions[i].version :
        i \in {j \in 1..Len(fdefs[f].versions) : fdefs[f].versions[j].status = "approved"}}

\* C16: registry selection: the registry holds exactly the active
\* definitions that have an approved version, each bound to the approved
\* version of the highest number, with that version's logic.
C16_RegistrySelection ==
    build.status # "none" =>
        /\ build.status = "ok"
        /\ DOMAIN reg = {f \in FactIds : fdefs[f].is_active /\ ApprovedNumbers(f) # {}}
        /\ \A f \in DOMAIN reg :
              /\ reg[f].id = f /\ reg[f].version_obj.fact = f
              /\ reg[f].version_obj.version \in ApprovedNumbers(f)
              /\ \A m \in ApprovedNumbers(f) : m <= reg[f].version_obj.version
              /\ \E i \in 1..Len(fdefs[f].versions) :
                    /\ fdefs[f].versions[i].version = reg[f].version_obj.version
                    /\ fdefs[f].versions[i].code = reg[f].producer

\* C16's case: A has the approved versions 1 and 2, stored in that order,
\* and is bound to 2; B is active with a draft and a deprecated version, C
\* is inactive with an approved one: neither is registered.
C16_Witness ==
    /\ build.status = "ok"
    /\ fdefs["A"].is_active
    /\ Len(fdefs["A"].versions) = 2
    /\ fdefs["A"].versions[1].version = 1 /\ fdefs["A"].versions[1].status = "approved"
    /\ fdefs["A"].versions[2].version = 2 /\ fdefs["A"].versions[2].status = "approved"
    /\ fdefs["B"].is_active
    /\ {fdefs["B"].versions[i].status : i \in 1..Len(fdefs["B"].versions)}
          = {"draft", "deprecated"}
    /\ DOMAIN reg = {"A"}
    /\ reg["A"].version_obj.version = 2

(***************************************************************************)
(* The resolver while definitions change: A requires B, B has one approved *)
(* version; a newer version of B gets approved, and the registry is built  *)
(* again.  A request resolves against the registry it was started with.    *)
(***************************************************************************)
VersionsDefs ==
    [f \in FactIds |->
        IF f = "A" THEN
            Definition(TRUE, <<Version(1, "approved", <<"B">>, NoSchema, "return deps['B'] * 2")>>)
        ELSE IF f = "B" THEN
            Definition(TRUE, <<Version(1, "approved", <<>>, NoSchema, "return 10")>>)
        ELSE Definition(FALSE, <<Version(1, "approved", <<>>, NoSchema, "return 0")>>)]

InitVersions ==
    /\ fdefs = VersionsDefs
    /\ reg = build_taxonomy(VersionsDefs).registry
    /\ build = [status |-> build_taxonomy(VersionsDefs).status,
                cycles |-> build_taxonomy(VersionsDefs).cycles]
    /\ ctxPair = <<NoContext, NoContext>>
    /\ ctxOut = <<>>
    /\ NoRequests

\* FactDefinitionVersion.objects.create(fact_definition=f, version=n + 1,
\* status='approved', ...): a newer approved version of the fact.
ApproveVersion(f) ==
    /\ Len(fdefs[f].versions) < MaxVersions
    /\ fdefs' = [fdefs EXCEPT ![f].versions =
                    Append(@, Version(Len(@) + 1, "approved", <<>>, NoSchema, "return 11"))]
    /\ UNCHANGED <<reg, engine, build, pureVars, resVars>>

\* build_taxonomy() called again: a new registry from the rows as they are.
Rebuild ==
    /\ build_taxonomy(fdefs).registry # reg
    /\ LET b == build_taxonomy(fdefs)
       IN  /\ build' = [status |-> b.status, cycles |-> b.cycles]
           /\ reg' = b.registry
    /\ UNCHANGED <<fdefs, engine, pureVars, resVars>>

NextVersions ==
    \/ ApproveVersion("B")
    \/ Rebuild
    \/ \E r \in Requests :
          \/ \E f \in {"A", "B"} : Call(r, f, MkMap(<<>>))
          \/ Begin(r)
          \/ CallDependency(r)
          \/ Execute(r)
          \/ GetOrCreateLookup(r)
          \/ GetOrCreateInsert(r)

SpecVersions == InitVersions /\ [][NextVersions]_vars

\* The version a request's registry binds a fact to.
BoundVersion(r, f) == engine[r][f].version_obj

\* C17: version-keyed cache: approving a newer version changes no registry,
\* so a registry built before it goes on computing and caching under the
\* old version; every row a call writes and every stored row a call returns
\* is of the version its registry binds the fact to, so a registry built
\* after the approval never gives a row of the old version; and no row of
\* the table is ever changed or removed.
C17_VersionKeyedCache ==
    /\ [][fdefs' # fdefs => reg' = reg /\ engine' = engine /\ db' = db]_vars
    /\ [][/\ Len(db') >= Len(db)
          /\ \A i \in 1..Len(db) : db'[i] = db[i]]_vars
    /\ [][\A r \in Requests :
            (stack[r] # <<>> /\ stack'[r] # stack[r] /\ db' # db)
            => db'[Len(db')].fact_version = BoundVersion(r, Top(r).fact_id)]_vars
    /\ [](\A r \in Requests :
            (result[r].kind = "returned" /\ result[r].inst.id # NoId)
            => result[r].inst.fact_version = BoundVersion(r, result[r].inst.fact_version.fact))
    /\ [](\A r \in Requests : \A key \in DOMAIN store[r] :
            store[r][key].id # NoId => store[r][key].fact_version = BoundVersion(r, key[1]))

\* C17's case: with the success row of version 1 of B in the table, a
\* request started after the rebuild got B: a new row, of version 2, with
\* the value of the new logic; the old row is still there.
C17_Witness ==
    \E r \in Requests, i \in 1..Len(db) :
        /\ result[r].kind = "returned"
        /\ BoundVersion(r, "B") = [fact |-> "B", version |-> 2]
        /\ result[r].inst.fact_version = [fact |-> "B", version |-> 2]
        /\ result[r].inst.value = 11
        /\ i < result[r].inst.id
        /\ db[i].fact_version = [fact |-> "B", version |-> 1]
        /\ db[i].context_hash = result[r].inst.context_hash
        /\ db[i].status = "success" /\ db[i].value = 10

(***************************************************************************)
(* IntentRouter.route, router.py 40-85.  The question is the sequence of   *)
(* its characters.  A pattern is a literal text, matched without regard to *)
(* case, that may end in a named group (?P<name>\w+); this is the shape of *)
(* the patterns the recognizers hold, "... spend on (?P<category>\w+)".    *)
(***************************************************************************)
Alphabet == {"a", "A", "b", "1", " "}

\* str.lower(), and what re.IGNORECASE compares.
lower(ch) == IF ch = "A" THEN "a" ELSE ch

LowerText(cs) == [i \in 1..Len(cs) |-> lower(cs[i])]

\* \w
IsWordChar(ch) == ch # " "

Pattern(lit, name) == [lit |-> lit, group |-> name]

\* Whether the pattern matches with its first character at position i.
MatchesAt(pattern, text, i) ==
    LET n == Len(pattern.lit)
    IN  /\ i + n - 1 <= Len(text)
        /\ LowerText(SubSeq(text, i, i + n - 1)) = LowerText(pattern.lit)
        /\ pattern.group # "" => (i + n <= Len(text) /\ IsWordChar(text[i + n]))

\* \w+ is greedy: the run of word characters from position k on.
RECURSIVE WordRun(_, _)
WordRun(text, k) ==
    IF k > Len(text) \/ ~IsWordChar(text[k]) THEN <<>>
    ELSE <<text[k]>> \o WordRun(text, k + 1)

\* A search that finds nothing.
search_nothing(pattern, text) == [matched |-> FALSE, groupdict |-> MkMap(<<>>)]

\* pattern.search(text) and match.groupdict(), router.py 47-50: the
\* leftmost match, its named group as a str.
search(pattern, text) ==
    LET at == {i \in 1..Len(text) : MatchesAt(pattern, text, i)}
    IN  IF at = {} THEN [matched |-> FALSE, groupdict |-> MkMap(<<>>)]
        ELSE LET i == CHOOSE x \in at : \A y \in at : x <= y
             IN  [matched |-> TRUE,
                  groupdict |->
                      IF pattern.group = "" THEN MkMap(<<>>)
                      ELSE MkMap(<<Entry(pattern.group,
                                         MkStr(Join(WordRun(text, i + Len(pattern.lit)))))>>)]

\* k.lower() in text.lower(), router.py 72
Contains(text, k) ==
    \E i \in 1..(Len(text) - Len(k) + 1) :
        LowerText(SubSeq(text, i, i + Len(k) - 1)) = LowerText(k)

\* Scores are fractions, compared as such.
Fraction(num, den) == [num |-> num, den |-> den]

Greater(x, y) == x.num * y.den > y.num * x.den

\* router.py 58-76: the score of a recognizer.  fuzzy is what
\* process.extractOne(text, examples, scorer=fuzz.token_sort_ratio) gives
\* for the question, taken as given; 0 stands for no example.
score(item, text) ==
    LET fuzzy_score == Fraction(item.fuzzy, 1)
        keywords_found == Cardinality({i \in 1..Len(item.keywords) :
                                          Contains(text, item.keywords[i])})
        keyword_score == IF Len(item.keywords) > 0
                         THEN Fraction(keywords_found * 90, Len(item.keywords))
                         ELSE Fraction(0, 1)
        s1 == IF Greater(fuzzy_score, Fraction(0, 1)) THEN fuzzy_score ELSE Fraction(0, 1)
    IN  IF Greater(keyword_score, s1) THEN keyword_score ELSE s1

\* The test of router.py 78 with ties going to the later recognizer.
BetterOrEqual(sc, best_score) == ~Greater(best_score, sc) /\ Greater(sc, Fraction(60, 1))

\* router.py 78: score > best_score and score > 60
Better(sc, best_score) == Greater(sc, best_score) /\ Greater(sc, Fraction(60, 1))

\* router.py 54-80: the loop over the recognizers from item i on.
RECURSIVE BestFrom(_, _, _, _)
BestFrom(items, text, i, best) ==
    IF i > Len(items) THEN best
    ELSE LET sc == score(items[i], text)
         IN  BestFrom(items, text, i + 1,
                      IF Better(sc, best.score)
                      THEN [score |-> sc, version |-> items[i].version]
                      ELSE best)

\* router.py 45-51: the first match, recognizers in order, patterns in
\* order.
RECURSIVE FirstMatch(_, _, _, _)
FirstMatch(items, text, i, j) ==
    IF i > Len(items) THEN [status |-> "none", version |-> NoVersion, context |-> MkMap(<<>>)]
    ELSE IF j > Len(items[i].regex) THEN FirstMatch(items, text, i + 1, 1)
    ELSE LET m == search(items[i].regex[j], text)
         IN  IF m.matched
             THEN [status |-> "pattern", version |-> items[i].version, context |-> m.groupdict]
             ELSE FirstMatch(items, text, i, j + 1)

\* route, router.py 40-85.
route(items, text) ==
    LET m == FirstMatch(items, text, 1, 1)
        best == BestFrom(items, text, 1, [score |-> Fraction(0, 1), version |-> NoVersion])
    IN  IF m.status = "pattern" THEN m
        ELSE IF best.version # NoVersion
             THEN [status |-> "scored", version |-> best.version, context |-> MkMap(<<>>)]
        ELSE [status |-> "absent", version |-> NoVersion, context |-> MkMap(<<>>)]

\* The recognizers of the model: no pattern, the pattern a(?P<g>\w+), or
\* the patterns b and a(?P<g>\w+) in that order; no keyword, one, or three;
\* a fuzzy score of nothing, 60 or 61.
RegexChoices ==
    {<<>>, <<Pattern(<<"a">>, "g")>>, <<Pattern(<<"b">>, ""), Pattern(<<"a">>, "g")>>}

KeywordChoices == {<<>>, <<<<"b">>>>, <<<<"a">>, <<"b">>, <<"1">>>>}

FuzzyChoices == {0, 60, 61}

Recognizer(v, regex, keywords, fuzzy) ==
    [version |-> v, regex |-> regex, keywords |-> keywords, fuzzy |-> fuzzy]

RecognizerLists ==
    {<<Recognizer([fact |-> "A", version |-> 1], r1, k1, f1),
       Recognizer([fact |-> "B", version |-> 1], r2, k2, f2)>> :
        r1 \in RegexChoices, k1 \in KeywordChoices, f1 \in FuzzyChoices,
        r2 \in RegexChoices, k2 \in KeywordChoices, f2 \in FuzzyChoices}

MaxText == 3

RECURSIVE TextsUpTo(_)
TextsUpTo(len) ==
    IF len = 0 THEN {<<>>}
    ELSE LET shorter == TextsUpTo(len - 1)
         IN  shorter \cup {Append(t, ch) : t \in {q \in shorter : Len(q) = len - 1},
                                            ch \in Alphabet}

InitRoute ==
    /\ recognizers \in RecognizerLists
    /\ question \in TextsUpTo(MaxText)
    /\ routed = NotRouted
    /\ fdefs = NoDefinitions
    /\ reg = NoRegistry
    /\ build = NotBuilt
    /\ ctxPair = <<NoContext, NoContext>>
    /\ ctxOut = <<>>
    /\ Idle

Route ==
    /\ routed = NotRouted
    /\ routed' = route(recognizers, question)
    /\ UNCHANGED <<recognizers, question, ctxPair, ctxOut, regVars, resVars>>

NextRoute == Route

SpecRoute == InitRoute /\ [][NextRoute]_vars

\* What it is for a pattern to match somewhere in a text, and what its
\* group then holds: the word characters that follow the leftmost
\* occurrence of the literal, up to the first character that is not one.
OccursAt(p, text, i) ==
    /\ i >= 1 /\ i + Len(p.lit) - 1 <= Len(text)
    /\ \A k \in 1..Len(p.lit) : lower(text[i + k - 1]) = lower(p.lit[k])
    /\ p.group # "" => (i + Len(p.lit) <= Len(text) /\ text[i + Len(p.lit)] # " ")

MatchesSomewhere(p, text) == \E i \in 1..Len(text) : OccursAt(p, text, i)

Captured(p, text) ==
    LET i == CHOOSE x \in 1..Len(text) :
                 OccursAt(p, text, x) /\ \A y \in 1..(x - 1) : ~OccursAt(p, text, y)
        from == i + Len(p.lit)
        to == CHOOSE e \in from..Len(text) :
                  /\ \A m \in from..e : text[m] # " "
                  /\ e < Len(text) => text[e + 1] = " "
    IN  SubSeq(text, from, to)

HasMatch(i) ==
    \E j \in 1..Len(recognizers[i].regex) : MatchesSomewhere(recognizers[i].regex[j], question)

\* C18: the pattern stage: when some recognizer has a pattern that matches
\* somewhere in the question, route gives the version of the first such
\* recognizer, and as context the named group of its first matching
\* pattern, the captured text as a str; whatever the scores are.
C18_PatternStage ==
    (routed # NotRouted /\ \E i \in 1..Len(recognizers) : HasMatch(i)) =>
        LET i == CHOOSE x \in 1..Len(recognizers) :
                     HasMatch(x) /\ \A y \in 1..(x - 1) : ~HasMatch(y)
            j == CHOOSE x \in 1..Len(recognizers[i].regex) :
                     /\ MatchesSomewhere(recognizers[i].regex[x], question)
                     /\ \A y \in 1..(x - 1) :
                           ~MatchesSomewhere(recognizers[i].regex[y], question)
            p == recognizers[i].regex[j]
        IN  /\ routed.version = recognizers[i].version
            /\ routed.context =
                   IF p.group = "" THEN MkMap(<<>>)
                   ELSE MkMap(<<Entry(p.group, MkStr(Join(Captured(p, question))))>>)
            /\ \A k \in 1..Len(routed.context.kids) : routed.context.kids[k].v.t = "str"

\* C18's case: the first recognizer has no pattern and a score of 61, the
\* second holds the patterns b and a(?P<g>\w+); the question has no b, and
\* a digit after its a: route gives the second, with g the str "1".
C18_Witness ==
    /\ routed.status = "pattern"
    /\ recognizers[1].regex = <<>> /\ recognizers[1].fuzzy = 61
    /\ Len(recognizers[2].regex) = 2
    /\ ~MatchesSomewhere(recognizers[2].regex[1], question)
    /\ routed.version = recognizers[2].version
    /\ routed.context = MkMap(<<Entry("g", MkStr("1"))>>)

NoMatch == \A i \in 1..Len(recognizers) : ~HasMatch(i)

\* The recognizers whose score is above 60 and below no other's.
Best ==
    {i \in 1..Len(recognizers) :
        /\ Greater(score(recognizers[i], question), Fraction(60, 1))
        /\ \A k \in 1..Len(recognizers) :
              ~Greater(score(recognizers[k], question), score(recognizers[i], question))}

C19_WitnessSixty ==
    /\ routed.status = "absent" /\ NoMatch
    /\ score(recognizers[1], question) = Fraction(180, 3)
    /\ score(recognizers[2], question) = Fraction(60, 1)

(***************************************************************************)
(* The cache table over the calls of Spec.                                 *)
(***************************************************************************)
\* C21: append-only cache: no step of any interleaving of calls updates or
\* deletes a FactInstance row or a dependency edge; a step changes the table
\* only by adding one row for a (version, context hash) pair that had none,
\* and the edges it adds are that new row's.
C21_AppendOnlyCache ==
    [][/\ Len(db') \in {Len(db), Len(db) + 1}
       /\ \A i \in 1..Len(db) : db'[i] = db[i]
       /\ Len(db') = Len(db) + 1 =>
             ~\E i \in 1..Len(db) :
                 /\ db[i].fact_version = db'[Len(db')].fact_version
                 /\ db[i].context_hash = db'[Len(db')].context_hash
       /\ fid \subseteq fid'
       /\ \A e \in fid' \ fid :
             Len(db') = Len(db) + 1 /\ e.parent_instance = Len(db')]_vars

\* C21's case: a call whose logic succeeded found, at get_or_create, the
\* error row another call had written for its key; the row is as it was.
C21_Witness ==
    \E r \in Requests :
        /\ result[r].kind = "returned"
        /\ \E e \in log[r], x \in log[r] :
              /\ e.ev = "found" /\ db[e.id].status = "error"
              /\ x.ev = "execute" /\ x.fact = e.fact /\ x.hash = e.hash

\* C24: provenance edges are written once, by the winner only: the step that
\* creates a row writes one edge per persisted dependency instance of the
\* call, under the fact id it was resolved for; every other step, the
\* loser's re-fetch among them, writes none.
C24_EdgesOnceByWinner ==
    [][\A r \in Requests :
          (stack[r] # <<>> /\ stack'[r] # stack[r]) =>
              IF Top(r).pc \in {"persist", "create"} /\ Len(db') = Len(db) + 1
              THEN LET deps == Top(r).dep_instances
                       kept == {i \in 1..Len(deps) : deps[i].inst.id # NoId}
                   IN  /\ fid \subseteq fid'
                       /\ Cardinality(fid' \ fid) = Cardinality(kept)
                       /\ \A i \in kept : \E e \in fid' \ fid :
                             /\ e.parent_instance = Len(db')
                             /\ e.dependency_instance = deps[i].inst.id
                             /\ e.dependency_fact_id = deps[i].k
              ELSE fid' = fid]_vars

\* C24's case: two calls computed A over B; one created A's row, the other
\* found that row at get_or_create or lost the insert to it; the row has the
\* one edge to B's row.
C24_Witness ==
    \E r1, r2 \in Requests :
        /\ r1 # r2 /\ stack[r1] = <<>> /\ stack[r2] = <<>>
        /\ \E e1 \in log[r1], e2 \in log[r2] :
              /\ e1.ev = "insert" /\ e1.fact = "A"
              /\ e2.ev \in {"found", "lost"} /\ e2.fact = "A" /\ e2.id = e1.id
              /\ \E x \in log[r2] : x.ev = "execute" /\ x.fact = "A"
              /\ Cardinality({e \in fid : e.parent_instance = e1.id}) = 1

\* C29: content-address invariant: the context stored in every row is
\* normalized (no transient key at any depth, normalization leaves it as it
\* is) and the row's context_hash is hash_context of that stored context.
C29_ContentAddress ==
    \A i \in 1..Len(db) :
        /\ ~HasTransientKey(db[i].context)
        /\ normalize_context(db[i].context) = db[i].context
        /\ db[i].context_hash = hash_context(db[i].context)

\* C29's case: a row written by a call whose context had the user and a
\* date: the row holds the ISO text alone, and its hash is that of what it
\* holds.
C29_Witness ==
    \E r \in Requests, i \in 1..Len(db) :
        /\ \E e \in log[r] : e.ev = "insert" /\ e.id = i
        /\ result[r].kind = "returned" /\ result[r].inst = db[i]
        /\ db[i].context = MkMap(<<Entry("d", MkStr(isoformat(1)))>>)
        /\ db[i].context_hash = hash_context(MkMap(<<Entry("user", MkInt(1)), Entry("d", MkDate(1))>>))

(***************************************************************************)
(* The resolver over a diamond: A requires B and C, B and C each require   *)
(* D, and D reads the balance of the context's user.  Each FactStore       *)
(* serves one top-level call, as the store of engine.py 46 does.           *)
(***************************************************************************)
DiamondIds == {"A", "B", "C", "D"}

DiamondDefs ==
    [f \in DiamondIds |->
        IF f = "A" THEN
            Definition(TRUE, <<Version(1, "approved", <<"B", "C">>, NoSchema,
                                       "return deps['B'] + deps['C']")>>)
        ELSE IF f \in {"B", "C"} THEN
            Definition(TRUE, <<Version(1, "approved", <<"D">>, NoSchema,
                                       "return deps['D'] + 1")>>)
        ELSE Definition(TRUE, <<Version(1, "approved", <<>>, NoSchema,
                                        "return Ledger[context['user']]")>>)]

DiamondContexts == {MkMap(<<>>), MkMap(<<Entry("user", MkInt(1))>>)}

InitDiamond ==
    /\ fdefs = DiamondDefs
    /\ reg = build_taxonomy(fdefs).registry
    /\ build = [status |-> build_taxonomy(fdefs).status,
                cycles |-> build_taxonomy(fdefs).cycles]
    /\ ctxPair = <<NoContext, NoContext>>
    /\ ctxOut = <<>>
    /\ NoRequests

NextDiamond ==
    \E r \in Requests :
        \/ \E f \in DiamondIds, c \in DiamondContexts : calls[r] = 0 /\ Call(r, f, c)
        \/ Begin(r)
        \/ CallDependency(r)
        \/ Execute(r)
        \/ GetOrCreateLookup(r)
        \/ GetOrCreateInsert(r)

SpecDiamond == InitDiamond /\ [][NextDiamond]_vars

RECURSIVE Copies(_, _)
\* How many times the events of S are in the bag.
Copies(S, B) ==
    IF S = {} THEN 0
    ELSE LET e == CHOOSE x \in S : TRUE
         IN  CopiesIn(e, B) + Copies(S \ {e}, B)

\* How many events of the kinds the bag has for the key (f, h).
TimesIn(B, kinds, f, h) ==
    Copies({e \in BagToSet(B) : e.ev \in kinds /\ e.fact = f /\ e.hash = h}, B)

\* How many times, with the store of request r, an event of one of the kinds
\* has happened for the key (f, h).
Times(r, kinds, f, h) == TimesIn(tally[r], kinds, f, h)

MaxDepth == 4

CycleDefs ==
    {[f \in FactIds |->
        IF f = "A" THEN
            Definition(TRUE, <<WithDependencies(
                Version(1, "approved", <<>>, NoSchema, "return deps.get('B', 0) + 1"),
                <<DependencyRow(to, <<>>, "")>>)>>)
        ELSE IF f = "B" THEN
            Definition(TRUE, <<WithDependencies(
                Version(1, "approved", <<>>, NoSchema, "return 10"), back)>>)
        ELSE Definition(FALSE, <<Version(1, "approved", <<>>, NoSchema, "return 0")>>)] :
     to \in {"A", "B"}, back \in {<<>>, <<DependencyRow("A", <<>>, "")>>}}

InitCycle ==
    /\ fdefs \in CycleDefs
    /\ reg = build_taxonomy(fdefs).registry
    /\ build = [status |-> build_taxonomy(fdefs).status,
                cycles |-> build_taxonomy(fdefs).cycles]
    /\ ctxPair = <<NoContext, NoContext>>
    /\ ctxOut = <<>>
    /\ NoRequests

NextCycle ==
    \E r \in Requests :
        \/ \E f \in {"A", "B"}, c \in DiamondContexts : calls[r] = 0 /\ Call(r, f, c)
        \/ Begin(r)
        \/ Len(stack[r]) < MaxDepth /\ FollowEdge(r)
        \/ Execute(r)
        \/ GetOrCreateLookup(r)
        \/ GetOrCreateInsert(r)

SpecCycle == InitCycle /\ [][NextCycle]_vars

\* The frames of the request that are calls for the key of its frame i.
SameKeyFrames(r, i) ==
    {j \in 1..Len(stack[r]) :
        /\ stack[r][j].fact_id = stack[r][i].fact_id
        /\ hash_context(stack[r][j].context) = hash_context(stack[r][i].context)}

\* C23: termination: under a registry build_taxonomy accepted, the chain of
\* recursive calls of resolve_fact never comes back to a key (fact id,
\* context hash) whose call is still in progress, so it ends after finitely
\* many calls.
C23_Terminates ==
    \A r \in Requests :
        build.status = "ok" => \A i \in 1..Len(stack[r]) : SameKeyFrames(r, i) = {i}

(***************************************************************************)
(* The resolver over parents with several dependencies: a dependency whose *)
(* schema rejects the context, a dependency whose logic fails after an     *)
(* earlier one succeeded (flat and structured), and one fact id declared   *)
(* twice (in requires and in an edge, or in two edges).                    *)
(***************************************************************************)
Approved(req, schema, src, rows) ==
    WithDependencies(Version(1, "approved", req, schema, src), rows)

Seven == <<[k |-> "x", template |-> <<TemplateText(<<"7">>)>>]>>

\* Each case: the versions of A and B, and the contexts the callers pass.
BranchCases ==
    {[a |-> Approved(<<"B">>, NoSchema, "return deps['B']", <<>>),
      b |-> Approved(<<>>, [required |-> {"d"}, strings |-> {"d"}], "return 10", <<>>),
      contexts |-> {MkMap(<<>>), MkMap(<<Entry("d", MkStr(isoformat(1)))>>)}],
     [a |-> Approved(<<"C", "B">>, NoSchema, "return deps['B'] + deps['C']", <<>>),
      b |-> Approved(<<>>, NoSchema, "return Ledger[context['user']]", <<>>),
      contexts |-> DiamondContexts],
     [a |-> Approved(<<>>, NoSchema, "return deps['B'] + deps['C']",
                     <<DependencyRow("C", <<>>, ""), DependencyRow("B", <<>>, "")>>),
      b |-> Approved(<<>>, NoSchema, "return Ledger[context['user']]", <<>>),
      contexts |-> DiamondContexts],
     [a |-> Approved(<<"B">>, NoSchema, "return deps['B']",
                     <<DependencyRow("B", Mapping, "val > 0")>>),
      b |-> Approved(<<>>, NoSchema, "return ctx.get('x', 0)", <<>>),
      contexts |-> {MkMap(<<Entry("val", MkInt(5))>>), MkMap(<<Entry("val", MkInt(0 - 5))>>)}],
     [a |-> Approved(<<>>, NoSchema, "return deps['B']",
                     <<DependencyRow("B", Mapping, ""), DependencyRow("B", Seven, "")>>),
      b |-> Approved(<<>>, NoSchema, "return ctx.get('x', 0)", <<>>),
      contexts |-> {MkMap(<<Entry("val", MkInt(5))>>)}]}

BranchDefs(case) ==
    [f \in FactIds |->
        IF f = "A" THEN Definition(TRUE, <<case.a>>)
        ELSE IF f = "B" THEN Definition(TRUE, <<case.b>>)
        ELSE Definition(TRUE, <<Approved(<<>>, NoSchema, "return 10", <<>>)>>)]

\* The contexts of the case the definitions are of.
BranchContexts(defs) == (CHOOSE case \in BranchCases : BranchDefs(case) = defs).contexts

InitBranches ==
    /\ fdefs \in {BranchDefs(case) : case \in BranchCases}
    /\ reg = build_taxonomy(fdefs).registry
    /\ build = [status |-> build_taxonomy(fdefs).status,
                cycles |-> build_taxonomy(fdefs).cycles]
    /\ ctxPair = <<NoContext, NoContext>>
    /\ ctxOut = <<>>
    /\ NoRequests

NextBranches ==
    \E r \in Requests :
        \/ \E f \in {"A", "B"}, c \in BranchContexts(fdefs) : calls[r] = 0 /\ Call(r, f, c)
        \/ Begin(r)
        \/ CallDependency(r)
        \/ SkipEdge(r)
        \/ FollowEdge(r)
        \/ Execute(r)
        \/ GetOrCreateLookup(r)
        \/ GetOrCreateInsert(r)

SpecBranches == InitBranches /\ [][NextBranches]_vars

\* The innermost call of the request runs its logic in this step.
RunsLogic(r) ==
    /\ stack[r] # <<>> /\ Top(r).pc = "deps"
    /\ Len(stack'[r]) = Len(stack[r])
    /\ stack'[r][Len(stack'[r])].pc \in {"persist", "running"}

\* The call holds, for some dependency, an instance of status error.
HoldsErrorInstance(fr) ==
    \E i \in 1..Len(fr.dep_instances) : fr.dep_instances[i].inst.status = "error"

\* C25: a returned error-status instance is terminal for its branch: a call
\* that got an error-status instance back for a dependency does not run its
\* logic with it and does not store a success row for itself.
C25_ErrorInstanceIsTerminal ==
    [][\A r \in Requests :
          /\ RunsLogic(r) => ~HoldsErrorInstance(Top(r))
          /\ (/\ Acts(r, "create") /\ Len(db') = Len(db) + 1
              /\ db'[Len(db')].status = "success")
                => ~HoldsErrorInstance(Top(r))]_vars

\* The innermost call, a dependency of another, ends with its logic failed.
DependencyFails(r) ==
    /\ Len(stack[r]) >= 2 /\ Top(r).pc \in {"persist", "create"}
    /\ Top(r).status = "error"
    /\ Len(stack'[r]) < Len(stack[r])

\* C27: dependency failure leaves the parent untouched: when a dependency's
\* call ends in its failure, every call above it ends with that failure in
\* the same step: none has run or runs its logic, no row and no edge is
\* written for any of them, nothing is memoized under their keys; what the
\* dependencies resolved before it left in the table and in the store stays.
C27_DependencyFailureLeavesParent ==
    [][\A r \in Requests :
          DependencyFails(r) =>
              /\ stack'[r] = <<>>
              /\ result'[r].kind = "raised"
              /\ result'[r].error = "Error computing fact: " \o Top(r).error
              /\ \A e \in fid' \ fid :
                    db'[e.parent_instance].fact_version.fact = Top(r).fact_id
              /\ \A p \in 1..(Len(stack[r]) - 1) :
                    LET fr == stack[r][p]
                        h == hash_context(fr.context)
                    IN  /\ fr.pc = "deps"
                        /\ TimesIn(tally'[r], {"execute"}, fr.fact_id, h) = 0
                        /\ <<fr.fact_id, h>> \notin DOMAIN store'[r]
                        /\ \A i \in (Len(db) + 1)..Len(db') :
                              db'[i].fact_version.fact # fr.fact_id
                        /\ \A i \in 1..Len(fr.dep_instances) :
                              LET dep == fr.dep_instances[i]
                              IN  /\ <<dep.k, dep.inst.context_hash>> \in DOMAIN store'[r]
                                  /\ store'[r][<<dep.k, dep.inst.context_hash>>] = dep.inst
                                  /\ dep.inst.id # NoId => db'[dep.inst.id] = dep.inst]_vars

\* C27's case: a call of A whose structured edges name C and then B has
\* raised B's failure: C's row and B's error row are in the table and in
\* the store, and there is nothing of A in either.
C27_Witness ==
    \E r \in Requests :
        LET h == hash_context(MkMap(<<>>))
        IN  /\ stack[r] = <<>> /\ result[r].kind = "raised"
            /\ reg["A"].dependencies # <<>>
            /\ \E e \in log[r] : e.ev = "edge" /\ e.fact = "C"
            /\ \E e \in log[r] : e.ev = "edge" /\ e.fact = "B"
            /\ {<<"C", h>>, <<"B", h>>} \subseteq DOMAIN store[r]
            /\ store[r][<<"C", h>>].status = "success" /\ store[r][<<"C", h>>].id # NoId
            /\ store[r][<<"B", h>>].status = "error" /\ store[r][<<"B", h>>].id # NoId
            /\ <<"A", h>> \notin DOMAIN store[r]
            /\ \A i \in 1..Len(db) : db[i].fact_version.fact # "A"

\* C27's case with the flat list: the same under requires = [C, B].
C27_WitnessFlat ==
    \E r \in Requests :
        LET h == hash_context(MkMap(<<>>))
        IN  /\ stack[r] = <<>> /\ result[r].kind = "raised"
            /\ reg["A"].requires = <<"C", "B">>
            /\ {<<"C", h>>, <<"B", h>>} \subseteq DOMAIN store[r]
            /\ store[r][<<"C", h>>].status = "success"
            /\ store[r][<<"B", h>>].status = "error"
            /\ <<"A", h>> \notin DOMAIN store[r]
            /\ \A i \in 1..Len(db) : db[i].fact_version.fact # "A"

\* The declarations of a fact's dependencies in order, flat list first: the
\* fact each names, the context it is to be resolved with, and whether it is
\* followed.
Declarations(spec, c) ==
    [i \in 1..Len(spec.requires) |->
        [to |-> spec.requires[i], context |-> c, followed |-> TRUE]]
    \o [i \in 1..Len(spec.dependencies) |->
        [to |-> spec.dependencies[i].to_fact_id,
         context |-> Derived(c, spec.dependencies[i].param_mapping, c),
         followed |-> ConditionHolds(spec.dependencies[i].condition, c)]]

\* The followed declarations that name k.
Followed(decls, k) == {j \in 1..Len(decls) : decls[j].to = k /\ decls[j].followed}

Last(S) == CHOOSE j \in S : \A i \in S : i <= j

\* C28: the dependency map has at most one entry per fact id: once a call's
\* dependencies are resolved, every followed declaration has been resolved
\* (its key is in the store), and the map holds for each declared id one
\* entry, the instance of the last followed declaration of it; a stored row
\* has at most one edge per dependency fact id, to the row of that last
\* declaration, its provenance lists the rows of its edges, and logic that
\* returns deps['B'] gave the row that row's value.
C28_OneEntryPerDependency ==
    /\ \A r \in Requests : \A p \in 1..Len(stack[r]) :
          LET fr == stack[r][p]
              decls == Declarations(engine[r][fr.fact_id], fr.context)
          IN  fr.pc \in {"persist", "create"} =>
                  \A k \in FactIds :
                      LET entries == {i \in 1..Len(fr.dep_instances) : fr.dep_instances[i].k = k}
                          F == Followed(decls, k)
                      IN  /\ Cardinality(entries) = IF F = {} THEN 0 ELSE 1
                          /\ \A j \in F :
                                <<k, hash_context(decls[j].context)>> \in DOMAIN store[r]
                          /\ F # {} =>
                                DepInstance(fr, k)
                                   = store[r][<<k, hash_context(decls[Last(F)].context)>>]
    /\ \A i \in 1..Len(db) :
          LET spec == reg[db[i].fact_version.fact]
              decls == Declarations(spec, db[i].context)
              edges == {e \in fid : e.parent_instance = i}
          IN  /\ db[i].provenance.dependency_instance_ids
                    = {e.dependency_instance : e \in edges}
              /\ \A e1, e2 \in edges :
                    e1.dependency_fact_id = e2.dependency_fact_id => e1 = e2
              /\ \A e \in edges :
                    LET F == Followed(decls, e.dependency_fact_id)
                    IN  /\ F # {}
                        /\ db[e.dependency_instance].fact_version.fact = e.dependency_fact_id
                        /\ db[e.dependency_instance].context_hash
                              = hash_context(decls[Last(F)].context)
                        /\ (/\ spec.producer = "return deps['B']"
                            /\ e.dependency_fact_id = "B")
                              => /\ db[i].status = "success"
                                 /\ db[i].value = db[e.dependency_instance].value

\* C28's case: A names B in requires and in an edge that maps x; called
\* with val = 5, B was resolved first with A's context (value 0), then with
\* x = 5 (value 5); A's row has the value 5 and the one edge, to the second.
C28_Witness ==
    \E r \in Requests, i, j, m \in 1..Len(db) :
        /\ reg["A"].requires = <<"B">> /\ reg["A"].dependencies # <<>>
        /\ result[r].kind = "returned" /\ result[r].inst = db[m]
        /\ db[m].fact_version.fact = "A" /\ db[m].value = 5
        /\ db[i].fact_version.fact = "B" /\ db[i].value = 0
        /\ db[i].context = MkMap(<<Entry("val", MkInt(5))>>)
        /\ db[j].fact_version.fact = "B" /\ db[j].value = 5
        /\ db[j].context = MkMap(<<Entry("val", MkInt(5)), Entry("x", MkInt(5))>>)
        /\ i < j
        /\ db[m].provenance.dependency_instance_ids = {j}
        /\ \E e \in fid : {x \in fid : x.parent_instance = m} = {e} /\ e.dependency_instance = j

\* C28's case with two edges: B mapped from val, then B with x = 7; A's row
\* has the value 7.
C28_WitnessTwoEdges ==
    \E r \in Requests, j, m \in 1..Len(db) :
        /\ Len(reg["A"].dependencies) = 2
        /\ result[r].kind = "returned" /\ result[r].inst = db[m]
        /\ db[m].fact_version.fact = "A" /\ db[m].value = 7
        /\ db[j].fact_version.fact = "B" /\ db[j].value = 7
        /\ db[m].provenance.dependency_instance_ids = {j}
        /\ \E i \in 1..Len(db) : db[i].fact_version.fact = "B" /\ db[i].value = 5

\* How many of the recognizer's keywords the text has, whatever the case.
Matched(item, text) ==
    Cardinality({i \in 1..Len(item.keywords) : Contains(text, item.keywords[i])})

\* C26: router score formula: the keyword score is 100 x matched / total, on
\* the scale of the fuzzy score, so when no pattern matches and no
\* recognizer has examples, route gives a version exactly when some
\* recognizer has more than 60 hundredths of its keywords in the text.
C26_KeywordScoreScale ==
    (/\ routed # NotRouted /\ NoMatch
     /\ \A i \in 1..Len(recognizers) : recognizers[i].fuzzy = 0)
        => (routed.status = "scored"
               <=> \E i \in 1..Len(recognizers) :
                      /\ Len(recognizers[i].keywords) > 0
                      /\ 100 * Matched(recognizers[i], question)
                            > 60 * Len(recognizers[i].keywords))

(***************************************************************************)
(* The engine built over persisted definitions whose versions may have an  *)
(* IntentRecognizer: QAEngine.__init__ builds the registry and the router  *)
(* from the same rows, then a question is routed.                          *)
(***************************************************************************)
\* The IntentRecognizer row of fact f's version: its keyword is the
\* lower-case letter of the fact, no pattern, no example.
IntentRecognizer(f) ==
    [regex_patterns |-> <<>>, keywords |-> <<<<IF f = "A" THEN "a" ELSE "b">>>>, fuzzy |-> 0]

\* The version with the recognizer row that points at it (models.py 89:
\* OneToOneField, related_name='recognizer').
WithRecognizer(v, rec) == v @@ [recognizer |-> rec]

\* The versions of a fact: numbers 1..n in order, each approved or draft,
\* each with or without a recognizer.
RecognizedVersionLists(f) ==
    {[i \in 1..n |->
         IF has[i]
         THEN WithRecognizer(Version(i, st[i], <<>>, NoSchema, "return 10"), IntentRecognizer(f))
         ELSE Version(i, st[i], <<>>, NoSchema, "return 10")] :
       n \in 1..MaxVersions, st \in [1..MaxVersions -> {"approved", "draft"}],
       has \in [1..MaxVersions -> BOOLEAN]}

ConsistencyChoices ==
    {[f \in FactIds |->
         IF f = "A" THEN Definition(aa, va)
         ELSE IF f = "B" THEN Definition(ab, vb)
         ELSE Definition(FALSE, <<Version(1, "approved", <<>>, NoSchema, "return 0")>>)] :
       aa \in BOOLEAN, ab \in BOOLEAN,
       va \in RecognizedVersionLists("A"), vb \in RecognizedVersionLists("B")}

\* FactDefinitionVersion.objects.filter(status='approved') with the versions
\* that have a recognizer, router.py 27-31: fact and index.
RecognizedRows(defs) ==
    {<<f, i>> : f \in DOMAIN defs, i \in 1..MaxVersions} \cap
    {row \in (DOMAIN defs) \X (1..MaxVersions) :
        /\ row[2] <= Len(defs[row[1]].versions)
        /\ defs[row[1]].versions[row[2]].status = "approved"
        /\ "recognizer" \in DOMAIN defs[row[1]].versions[row[2]]}

\* _load_recognizers, router.py 21-38: the lists it can build.  The rows
\* come in the order of Meta.ordering, '-version' (models.py 80); the order
\* among versions of one number is the database's.
_load_recognizers(defs) ==
    LET rows == RecognizedRows(defs)
        orders == {p \in DistinctPaths(rows, Cardinality(rows)) :
                      /\ Len(p) = Cardinality(rows)
                      /\ \A i, j \in 1..Len(p) : p[i] = p[j] => i = j
                      /\ \A i, j \in 1..Len(p) :
                            i < j => defs[p[i][1]].versions[p[i][2]].version
                                        >= defs[p[j][1]].versions[p[j][2]].version}
    IN  {[i \in 1..Len(p) |->
            LET v == defs[p[i][1]].versions[p[i][2]]
            IN  Recognizer([fact |-> p[i][1], version |-> v.version],
                           v.recognizer.regex_patterns, v.recognizer.keywords,
                           v.recognizer.fuzzy)] : p \in orders}

InitConsistency ==
    /\ fdefs \in ConsistencyChoices
    /\ question \in {<<"a">>, <<"b">>}
    /\ recognizers = <<>>
    /\ routed = NotRouted
    /\ reg = NoRegistry
    /\ build = NotBuilt
    /\ ctxPair = <<NoContext, NoContext>>
    /\ ctxOut = <<>>
    /\ Idle

\* QAEngine.__init__, engine.py 17-21: build_taxonomy() and IntentRouter()
\* over the same rows.
QAEngineInit ==
    /\ build = NotBuilt
    /\ reg' = build_taxonomy(fdefs).registry
    /\ build' = [status |-> build_taxonomy(fdefs).status,
                 cycles |-> build_taxonomy(fdefs).cycles]
    /\ recognizers' \in _load_recognizers(fdefs)
    /\ UNCHANGED <<fdefs, engine, question, routed, ctxPair, ctxOut, resVars>>

NextConsistency ==
    \/ QAEngineInit
    \/ build.status = "ok" /\ Route

SpecConsistency == InitConsistency /\ [][NextConsistency]_vars

\* C30: router/registry consistency: with the router and the registry
\* loaded from the same rows, the version route gives for a question is of
\* a fact the registry has, and is the version the registry computes that
\* fact with.
C30_RouterRegistryConsistency ==
    (build.status = "ok" /\ routed.status \in {"pattern", "scored"}) =>
        /\ routed.version.fact \in DOMAIN reg
        /\ reg[routed.version.fact].version_obj = routed.version

====
